---------------------------- MODULE Spec2Model ----------------------------
(***************************************************************************)
(* Model of the entavi voice-call engine (src-tauri/src): the RTP send     *)
(* path of PeerConn (peer.rs), the capture pipeline and the playback       *)
(* output callback (audio.rs), and the signaling client (signaling.rs).    *)
(*                                                                         *)
(* Each component has its own specification (SpecPeer, SpecCapture,        *)
(* SpecSignal, SpecPlayback); the variables of the other components stay   *)
(* at their idle values.                                                   *)
(***************************************************************************)
EXTENDS Integers, Sequences, FiniteSets, TLC

VARIABLES
  \* ---- PeerConn (peer.rs:20-28) ----
  rtp_seq,        \* AtomicU16: next RTP sequence number
  rtp_ts,         \* AtomicU32 as [hi, lo] 16-bit halves: next RTP timestamp
  rtp_ssrc,       \* u32 chosen once in PeerConn::new
  closed,         \* whether close() has been called: connection.close() ran
  track,          \* the packet last handed to audio_track.write_rtp, <<>> before the first
  calls,          \* number of send_audio calls made on this PeerConn so far
  last_result,    \* what the last send_audio call to return gave: "none", "ok", "err"
  close_returned, \* what the last close() call returned, "none" before the first
  write_pending   \* whether the caller's send_audio is suspended in write_rtp(..).await

peerVars ==
  <<rtp_seq, rtp_ts, rtp_ssrc, closed, track, calls, last_result,
    close_returned, write_pending>>

VARIABLES
  \* ---- AudioCapture / run_capture (audio.rs:18-218) ----
  device_rate,      \* default_config.sample_rate()
  device_channels,  \* default_config.channels()
  muted,            \* AtomicBool shared by set_muted and the input callback
  ring_len,         \* occupied_len of the capture ring buffer
  cb_pc,            \* input callback: "idle", or "push" once it has read muted = false
  cb_len,           \* data.len() of the callback invocation in flight
  loop_pc,          \* capture thread: "setup", "encoder" (the stream plays,
                    \* Encoder::new is to come), "poll", "sleep", "encode" (a
                    \* chunk is popped), "exited" (Ok), "failed" (Err)
  encoded_rx_alive, \* whether the receiver of encoded_tx still exists
  encoded_sent,     \* parity of the number of frames sent on encoded_tx
  stream_error,     \* whether the stream's error callback has run
  \* observations of the run, for the mute properties
  muted_sent,       \* whether a frame was sent since the mute was stored
  muted_discards,   \* whether the callback has discarded input during this mute
  unmuted_pushed,   \* samples the callback handed to the ring since the last unmute
  unmuted_sent,     \* whether a frame was sent since the last unmute
  unmuted_failed    \* whether an encode failed since the last unmute

captureVars ==
  <<device_rate, device_channels, muted, ring_len, cb_pc, cb_len, loop_pc,
    encoded_rx_alive, encoded_sent, stream_error, muted_sent, muted_discards,
    unmuted_pushed, unmuted_sent, unmuted_failed>>

VARIABLES
  \* ---- signaling::connect (signaling.rs:21-123) ----
  ws_open,           \* whether the websocket connection is open
  ws_rx,             \* frames (and a stream error) received, not yet read by the reader task
  outgoing,          \* the outgoing channel: SignalMessages the engine has queued
  outgoing_tx_alive, \* whether the engine still holds outgoing_tx
  incoming,          \* the incoming channel: SignalMessages not yet received by the engine
  incoming_rx_alive, \* whether the engine still holds incoming_rx
  rtt_rx,            \* the RTT channel: samples in ms not yet received by the engine
  ping_sent_at,      \* Option<Instant>: <<>>, or <<seconds elapsed since that instant>>
  rtt_due,           \* seconds until rtt_interval ticks
  writer_state,      \* writer task: "running", "stamping", in a send, or
                     \* why it ended
  reader_state,      \* reader task: "running", "locking", or why it ended
  \* observations of the run, for the signaling properties
  followed_ping,     \* one "ping" followed from its send to the read of its "pong"
  since_ping,        \* <<>>, or <<seconds since the writer task last went to send a "ping">>
  pong_parsed,       \* whether the text "pong" was ever handed to serde_json::from_str
  malformed_seen     \* "no", "dropped" (a text failed to parse), "forwarded" (a message after it)

signalVars ==
  <<ws_open, ws_rx, outgoing, outgoing_tx_alive, incoming, incoming_rx_alive,
    rtt_rx, ping_sent_at, rtt_due, writer_state, reader_state,
    followed_ping, since_ping, pong_parsed, malformed_seen>>

VARIABLES
  \* ---- run_playback / run_mic_test output side (audio.rs:361-376, 548-600) ----
  out_rate,          \* output device sample rate
  out_channels,      \* output device channel count
  out_ring,          \* samples in the output ring buffer, oldest first
  out_pc,            \* output callback: "idle", or "filling" its buffer
  out_data,          \* `data`: the buffer of the current (or last) output callback
  out_pos,           \* samples of `data` the callback has written
  next_sample,       \* number of the next sample the playback loop writes
  \* observation of the run, for the playback properties
  last_played        \* number of the ring sample played last, 0 before the first

playbackVars ==
  <<out_rate, out_channels, out_ring, out_pc, out_data, out_pos, next_sample,
    last_played>>

VARIABLES
  \* ---- PeerConn::new, on_track decode loop (peer.rs:82, 122-173) ----
  track_rx,          \* what track.read_rtp() will yield next, oldest first
  next_packet,       \* number of the next packet the remote track delivers
  decode_pc,         \* decode task: "no_track", "running", or why it ended
  decoded,           \* the decoded channel: DecodedFrames not yet received
  decoded_rx_alive,  \* whether decoded_rx (a field of the PeerConn) exists
  \* observations of the run, for the decode properties
  decode_skipped,    \* kinds of packets the loop has skipped so far
  decode_resumed     \* whether a frame was emitted after a skipped packet

decodeVars ==
  <<track_rx, next_packet, decode_pc, decoded, decoded_rx_alive,
    decode_skipped, decode_resumed>>

VARIABLES
  \* ---- PeerConn::new, on_ice_candidate (peer.rs:84-107) ----
  pid,               \* the id the PeerConn was constructed with
  ice_pending,       \* events the ICE agent has raised, callback not yet run
  next_candidate,    \* number of the next event the ICE agent raises
  ice_sink,          \* the sink channel: pairs sent and not yet received
  ice_rx_alive,      \* whether the receiver of the sink exists
  \* observation of the run, for the ICE properties
  ice_forwarded      \* number of ice_tx.send calls made so far

iceVars ==
  <<pid, ice_pending, next_candidate, ice_sink, ice_rx_alive,
    ice_forwarded>>

VARIABLES
  \* ---- run_capture, the processing loop sample by sample (audio.rs:134-215) ----
  noise_suppression, \* AtomicBool passed to AudioCapture::new, shared with
                     \* its owner
  ns_loaded,         \* what the loop loaded from it for the last chunk
  capture_ring,      \* the samples in the capture ring buffer, oldest first,
                     \* as runs <<first, last>> of consecutive sample numbers
  device_buf,        \* the chunk last popped from the ring, as runs; <<>>
                     \* before the first pop
  mono_48k_buf,      \* the buffer last handed to encoder.encode_float
  chunk_pc,          \* processing loop: "poll", "popped", "exited"
  frames_sent,       \* number of frames sent on encoded_tx
  \* observations of the run, for the chunk properties
  bursts,            \* number of callback invocations so far
  captured,          \* number of samples the device has delivered so far
  overflowed,        \* whether push_slice has left samples out
  callback_millis,   \* lengths of audio this device's callbacks hand over
  speaking,          \* AtomicBool read by is_speaking
  frame_amps,        \* the sample values of the frame the VAD looked at
                     \* last, in thousandths of full scale; <<>> before
  chunks_popped,     \* number of chunks popped so far
  last_encode,       \* outcome of the last encode_float: "none", "ok", "err"
  encode_failures,   \* number of encode_float calls that failed so far
  sent_after_failure \* whether a frame was sent after an encode had failed

framesVars ==
  <<chunk_pc, noise_suppression, ns_loaded, capture_ring, device_buf,
    mono_48k_buf,
    frames_sent,
    bursts, captured, overflowed, chunks_popped, last_encode, encode_failures,
    sent_after_failure, callback_millis, speaking, frame_amps>>

VARIABLES
  \* ---- PeerConn: create_offer .. add_ice_candidate (peer.rs:189-234) ----
  local_description,  \* the connection's local description, <<>> if none
  remote_description, \* the connection's remote description, <<>> if none
  \* observations of the run, for the negotiation properties
  neg_op,             \* the operation that returned last, "none" before the first
  neg_calls,          \* the calls that operation made, in order, each with
                      \* its outcome
  neg_result,         \* <<what the last operation returned>>, <<>> before the first
  negotiations,       \* number of operations called so far
  neg_returned,       \* number of operations that have returned
  neg_pending         \* per calling task: <<>>, or <<the operation it is in,
                      \* between two awaits: its argument, the description
                      \* created and the calls made so far>>

negotiateVars ==
  <<local_description, remote_description, neg_op, neg_calls, neg_result,
    negotiations, neg_returned, neg_pending>>

VARIABLES
  \* ---- MicTest / run_mic_test (audio.rs:273-516) ----
  mic_rate,          \* in_config.sample_rate()
  mic_channels,      \* in_config.channels()
  mic_stop,          \* AtomicBool shared by the MicTest handle and the loop
  mic_handle,        \* the MicTest value: "none", "held", "dropped"
  mic_pc,            \* mic-test thread: "none", "setup", "output" (the input
                     \* stream plays, the output stream and the codec are to
                     \* come), "poll", "sleep", "frame" (a chunk is popped),
                     \* "stopped" (Ok), "failed" (Err)
  mic_occupied,      \* occupied_len of the mic-test input ring
  level_counter,     \* frames since the last level event
  \* observations of the run, for the stop property
  mic_stop_at,       \* mic_pc when the stop flag was first stored, "none" before
  mic_last           \* how the last processed frame ended, "none" before the first

micVars ==
  <<mic_rate, mic_channels, mic_stop, mic_handle, mic_pc, mic_occupied,
    level_counter, mic_stop_at, mic_last>>

VARIABLES
  \* ---- PeerConn::send_audio called from several tasks (peer.rs:237-262) ----
  snd_pc,            \* per calling task: "idle", "seq_taken", "ts_taken", "writing"
  snd_seq,           \* per calling task: its local `seq`
  snd_ts,            \* per calling task: its local `ts`
  \* observations of the run, for the concurrent-send properties
  attempts,          \* the packets handed to write_rtp, in the order of the
                     \* writes, each with the outcome of its write
  calls_begun        \* number of send_audio calls begun in this run

sendersVars == <<snd_pc, snd_seq, snd_ts, attempts, calls_begun>>

VARIABLES
  \* ---- PeerConn::new, on_track for every remote track (peer.rs:122-173) ----
  later_loops        \* the decode tasks spawned for the remote tracks that
                     \* arrived after the first, in order of arrival: each
                     \* "running", or why it ended

tracksVars == <<later_loops>>

VARIABLES
  \* ---- PeerConn::new, on_peer_connection_state_change (peer.rs:109-120) ----
  connection_state,  \* the state the handler was last called with, "new" before
  lost_warned,       \* whether the handler has logged "connection lost"
  state_events       \* what the handler has produced for the owner of the
                     \* PeerConn to observe, oldest first

stateVars == <<connection_state, lost_warned, state_events>>

VARIABLES
  \* ---- AudioPlayback::write and the loop of run_playback (audio.rs:266-268, 567-601) ----
  play_rx,           \* the channel of AudioPlayback: chunks sent, not yet received
  wr_chunk,          \* per writing task: <<>>, or <<the chunk it has copied
                     \* (samples.to_vec()) and not yet sent>>
  \* observations of the run, for the write properties
  chunks_made,       \* number of write calls begun so far
  sent_order,        \* the chunks in the order their sends completed
  pushed             \* every sample the loop has pushed into the ring, in
                     \* the order of the pushes

writersVars == <<play_rx, wr_chunk, chunks_made, sent_order, pushed>>

VARIABLES
  \* ---- signaling::connect, the writer task frame by frame (signaling.rs:47-85) ----
  out_queue,         \* outgoing_rx: messages sent by the engine, not yet received
  out_tx_alive,      \* whether a sender of the outgoing channel is left
  sink_open,         \* whether ws_tx accepts a send
  ws_frames,         \* the frames ws_tx has accepted, oldest first
  ping_stamp,        \* ping_sent_at as the writer task leaves it: <<>> or <<0>>
  fwd_pc,            \* the task: "running" (at select!), "sending" (inside
                     \* ws_tx.send(..).await), or why it ended
  fwd_frame,         \* <<the frame the task is sending>>, <<>> at select!
  \* observations of the run
  out_enqueued,      \* every message the engine has sent, in send order
  timer_ticks        \* ticks of the two intervals the task has taken

forwardVars ==
  <<out_queue, out_tx_alive, sink_open, ws_frames, ping_stamp, fwd_pc,
    fwd_frame, out_enqueued, timer_ticks>>

VARIABLES
  \* ---- AudioPlayback::new, write and the thread of run_playback (audio.rs:251-269, 518-604) ----
  pb_thread,         \* "unspawned", "setup" (run_playback before its loop),
                     \* "loop" or "ended" (run_playback returned, rx dropped)
  pb_new_result,     \* what AudioPlayback::new returned: "none" before the
                     \* call, then "ok" (a handle) or "err"
  pb_chan,           \* the channel: chunks sent, not yet received
  pb_received,       \* the chunks the loop has received, oldest first
  pb_discarded,      \* the chunks whose send found the receiver gone
  pb_writes          \* one record per write call that returned: the chunk,
                     \* what the caller got back and whether the thread had
                     \* ended when the call was made

handleVars ==
  <<pb_thread, pb_new_result, pb_chan, pb_received, pb_discarded, pb_writes>>

\* What each component leaves alone.
notPeer == <<captureVars, signalVars, playbackVars, decodeVars, iceVars, framesVars, negotiateVars, micVars, sendersVars, tracksVars, stateVars, writersVars, forwardVars, handleVars>>
notCapture == <<peerVars, signalVars, playbackVars, decodeVars, iceVars, framesVars, negotiateVars, micVars, sendersVars, tracksVars, stateVars, writersVars, forwardVars, handleVars>>
framesRest ==
  <<chunk_pc, noise_suppression, ns_loaded, capture_ring, device_buf,
    mono_48k_buf,
    frames_sent, bursts, captured, overflowed, chunks_popped, last_encode,
    encode_failures, sent_after_failure, callback_millis>>
notCaptureFrames == <<peerVars, signalVars, playbackVars, decodeVars, iceVars, negotiateVars, micVars, sendersVars, tracksVars, stateVars, writersVars, forwardVars, handleVars>>
notSignal == <<peerVars, captureVars, playbackVars, decodeVars, iceVars, framesVars, negotiateVars, micVars, sendersVars, tracksVars, stateVars, writersVars, forwardVars, handleVars>>
notPlayback == <<peerVars, captureVars, signalVars, decodeVars, iceVars, framesVars, negotiateVars, micVars, sendersVars, tracksVars, stateVars, writersVars, forwardVars, handleVars>>
notDecode == <<peerVars, captureVars, signalVars, playbackVars, iceVars, framesVars, negotiateVars, micVars, sendersVars, tracksVars, stateVars, writersVars, forwardVars, handleVars>>
notIce == <<peerVars, captureVars, signalVars, playbackVars, decodeVars, framesVars, negotiateVars, micVars, sendersVars, tracksVars, stateVars, writersVars, forwardVars, handleVars>>
notFrames == <<peerVars, captureVars, signalVars, playbackVars, decodeVars, iceVars, negotiateVars, micVars, sendersVars, tracksVars, stateVars, writersVars, forwardVars, handleVars>>
notNegotiate == <<peerVars, captureVars, signalVars, playbackVars, decodeVars, iceVars, framesVars, micVars, sendersVars, tracksVars, stateVars, writersVars, forwardVars, handleVars>>
notMic == <<peerVars, captureVars, signalVars, playbackVars, decodeVars, iceVars, framesVars, negotiateVars, sendersVars, tracksVars, stateVars, writersVars, forwardVars, handleVars>>
notSenders == <<peerVars, captureVars, signalVars, playbackVars, decodeVars, iceVars, framesVars, negotiateVars, micVars, tracksVars, stateVars, writersVars, forwardVars, handleVars>>
notPeerSenders == <<captureVars, signalVars, playbackVars, decodeVars, iceVars, framesVars, negotiateVars, micVars, tracksVars, stateVars, writersVars, forwardVars, handleVars>>
notDecodeTracks == <<peerVars, captureVars, signalVars, playbackVars, iceVars, framesVars, negotiateVars, micVars, sendersVars, stateVars, writersVars, forwardVars, handleVars>>
notPeerState == <<captureVars, signalVars, playbackVars, decodeVars, iceVars, framesVars, negotiateVars, micVars, sendersVars, tracksVars, writersVars, forwardVars, handleVars>>
notWriters == <<peerVars, captureVars, signalVars, playbackVars, decodeVars, iceVars, framesVars, negotiateVars, micVars, sendersVars, tracksVars, stateVars, forwardVars, handleVars>>
notPlaybackWriters == <<peerVars, captureVars, signalVars, decodeVars, iceVars, framesVars, negotiateVars, micVars, sendersVars, tracksVars, stateVars, forwardVars, handleVars>>
notForward == <<peerVars, captureVars, signalVars, playbackVars, decodeVars, iceVars, framesVars, negotiateVars, micVars, sendersVars, tracksVars, stateVars, writersVars, handleVars>>
notHandle == <<peerVars, captureVars, signalVars, playbackVars, decodeVars, iceVars, framesVars, negotiateVars, micVars, sendersVars, tracksVars, stateVars, writersVars, forwardVars>>

\* ------------------------------------------------------------------------
\* Fixed-width integers
\* ------------------------------------------------------------------------

\* 2^16: the width of AtomicU16 and of each half of a u32.
U16 == 65536

\* A u32 is kept as two 16-bit halves, since 2^32 exceeds the checker's integers.
U32(hi, lo) == [hi |-> hi, lo |-> lo]

\* Mutant of WrappingAddU16: the counter is one byte wide.
WrappingAddU8(v, n) == (v + n) % 256

\* AtomicU16::fetch_add wraps on overflow: the new value of the counter.
WrappingAddU16(v, n) == (v + n) % U16

\* Mutant of WrappingAddU32: a 16-bit timestamp, the carry is lost.
WrappingAddLowHalf(v, n) == U32(v.hi, (v.lo + n) % U16)

\* AtomicU32::fetch_add wraps on overflow: the new value of the counter
\* (n < 2^16; the carry out of the low half goes into the high half).
WrappingAddU32(v, n) ==
  LET lo == v.lo + n
  IN  U32((v.hi + (lo \div U16)) % U16, lo % U16)

\* ------------------------------------------------------------------------
\* Program constants
\* ------------------------------------------------------------------------

\* types.rs: FRAME_SIZE, 20 ms at 48 kHz.
FRAME_SIZE == 960

\* RTP header constants of send_audio.
RTP_VERSION == 2
OPUS_PAYLOAD_TYPE == 111

\* ------------------------------------------------------------------------
\* Bounds
\* ------------------------------------------------------------------------

\* Largest channel count of an input device.
MaxChannels == 2

\* Largest number of sample frames one input callback invocation delivers.
MaxCallbackFrames == 2

\* Frames and samples the client may hold unprocessed: received frames not
\* yet read plus messages and samples the engine has not yet received.
MaxBacklog == 1

\* Messages the engine may have queued on the outgoing channel.
MaxOutgoing == 1

\* Elapsed seconds are counted up to this value.
MaxAge == 3

\* Seconds a due rtt_interval tick may wait while the writer task is inside
\* a send.
MaxOverdue == 1

\* Packets the remote track delivers in a run.
MaxPackets == 4

\* Packets delivered and not yet read by the decode loop.
MaxTrackBacklog == 2

\* Events the ICE agent raises in a run.
MaxCandidates == 3

\* Events raised for which the callback has not run yet.
MaxIceBacklog == 2

\* Callback invocations followed sample by sample.
MaxBursts == 2

\* Encodes that fail in a run followed sample by sample.
MaxEncodeFailures == 1

\* Tasks that call the negotiation methods of one PeerConn.
MaxNegTasks == 2

\* Negotiation operations called on one PeerConn.
MaxNegotiations == 3

\* Tasks that call send_audio on one PeerConn at the same time.
MaxSenders == 2

\* send_audio calls begun in a run with concurrent callers.
MaxSendCalls == 2

\* Remote tracks that arrive after the first on one PeerConn.
MaxLaterTracks == 1

\* DecodedFrames on the decoded channel when several loops feed it.
MaxDecodedBacklog == 2

\* Tasks that call AudioPlayback::write at the same time.
MaxWriters == 2

\* write calls made in a run.
MaxChunks == 2

\* Messages the engine sends on the outgoing channel of the followed
\* writer task.
MaxEnqueued == 3

\* Interval ticks the followed writer task takes.
MaxTicks == 2

\* Calls of AudioPlayback::write followed.
MaxWrites == 4

\* Samples the playback loop writes to the output ring in a run.
MaxSamples == 4

\* Longest slice the playback loop pushes at once.
MaxPush == 2

\* Longest buffer the output callback is handed.
MaxOutBuf == 3

\* send_audio calls explored on a freshly constructed PeerConn (past the
\* 2^16 wrap of the sequence number).
MaxCalls == 65540

\* send_audio calls explored on a long-lived PeerConn (past the 2^32 wrap of
\* the timestamp).
MaxLateCalls == 10

\* ------------------------------------------------------------------------
\* PeerConn
\* ------------------------------------------------------------------------

\* rand::random::<u32>() draws any u32; representatives of the range.
SsrcChoices == {U32(4660, 22136), U32(65535, 65535)}

\* EncodedFrame.data values handed to send_audio.
FrameData == {<<>>, <<7, 9>>}

\* Number of send_audio calls a PeerConn has already made when exploration
\* starts: a freshly constructed one, and one that has streamed for about a
\* day (20 ms per call), 5 calls short of the 2^32 timestamp wrap.
PriorCalls == {0, 4473920}

\* The long-lived starting point.
LateStart == CHOOSE n \in PriorCalls : n > 0

\* (960 * k) mod 2^32 as a u32, computed in 16-bit halves.
TimestampAfter(k) ==
  LET kh == k \div U16
      kl == k % U16
      lo == FRAME_SIZE * kl
  IN  U32((FRAME_SIZE * kh + (lo \div U16)) % U16, lo % U16)

\* The counters of PeerConn::new (n = 0), or of a PeerConn that has since
\* made n sequential send_audio calls.
PeerConnNew(n, ssrc) ==
  /\ rtp_seq = n % U16
  /\ rtp_ts = TimestampAfter(n)
  /\ rtp_ssrc = ssrc
  /\ closed = FALSE
  /\ track = <<>>
  /\ calls = n
  /\ last_result = "none"
  /\ close_returned = "none"
  /\ write_pending = FALSE

\* Mutant of RtpHeader: ssrc left to Default::default().
RtpHeaderDefaultSsrc(seq, ts, ssrc) ==
  [version |-> RTP_VERSION,
   payload_type |-> OPUS_PAYLOAD_TYPE,
   sequence_number |-> seq,
   timestamp |-> ts,
   ssrc |-> U32(0, 0),
   marker |-> FALSE]

\* The Header built by send_audio.
RtpHeader(seq, ts, ssrc) ==
  [version |-> RTP_VERSION,
   payload_type |-> OPUS_PAYLOAD_TYPE,
   sequence_number |-> seq,
   timestamp |-> ts,
   ssrc |-> ssrc,
   marker |-> FALSE]

\* The Packet built by send_audio.
RtpPacket(seq, ts, ssrc, data) ==
  [header |-> RtpHeader(seq, ts, ssrc), payload |-> data]

\* PeerConn::send_audio(frame) up to its await: both counters are advanced,
\* the packet is built and handed to audio_track.write_rtp, and the call is
\* suspended there.
send_audio(data) ==
  /\ track' = <<RtpPacket(rtp_seq, rtp_ts, rtp_ssrc, data)>>
  /\ rtp_seq' = WrappingAddU16(rtp_seq, 1)
  /\ rtp_ts' = WrappingAddU32(rtp_ts, FRAME_SIZE)
  /\ calls' = calls + 1
  /\ write_pending' = TRUE
  /\ UNCHANGED <<rtp_ssrc, closed, last_result, close_returned>>
  /\ UNCHANGED notPeer

\* The caller makes its calls one after another: the next call begins once
\* the one before has returned.
SendAudio ==
  /\ ~write_pending
  /\ \/ calls < MaxCalls
     \/ LateStart <= calls /\ calls < LateStart + MaxLateCalls
  /\ \E data \in FrameData : send_audio(data)

\* `.context("Failed to write RTP")?; Ok(())`: what send_audio returns for
\* the outcome of write_rtp.
SendResult(write_ok) == IF write_ok THEN "ok" ELSE "err"

\* audio_track.write_rtp(&packet).await returns, and send_audio with it.
SendAudioReturn ==
  /\ write_pending
  /\ write_pending' = FALSE
  /\ \E write_ok \in BOOLEAN : last_result' = SendResult(write_ok)
  /\ UNCHANGED <<rtp_seq, rtp_ts, rtp_ssrc, closed, track, calls,
                 close_returned>>
  /\ UNCHANGED notPeer

\* `let _ = self.connection.close().await;`: whatever connection.close()
\* gives (lib_ok), close returns ().
CloseResult(lib_ok) == "()"

\* PeerConn::close, one call: connection.close() is called and awaited, and
\* its result dropped. `closed` records that the call was made; the state
\* the call leaves the RTCPeerConnection in is the library's and is not
\* modelled.
close ==
  /\ closed' = TRUE
  /\ \E lib_ok \in BOOLEAN : close_returned' = CloseResult(lib_ok)
  /\ UNCHANGED <<rtp_seq, rtp_ts, rtp_ssrc, track, calls, last_result,
                 write_pending>>
  /\ UNCHANGED notPeer

NextPeer == SendAudio \/ SendAudioReturn \/ close

\* ------------------------------------------------------------------------
\* AudioCapture
\* ------------------------------------------------------------------------

\* Sample rates an input device may report. The ring buffer holds rate / 5
\* sample frames, so small rates keep it small; the code's arithmetic is
\* applied to them unchanged.
DeviceRates == {50, 100}

\* Mutant of device_frame_samples: the channel count is left out.
device_frame_samples_mono == device_rate \div 50

\* run_capture: device_frame_samples, 20 ms of interleaved device samples.
device_frame_samples == (device_rate \div 50) * device_channels

\* run_capture: ring_size, about 200 ms of interleaved device samples.
ring_size == (device_rate \div 5) * device_channels

\* AudioCapture::new: the capture thread is spawned and run_capture has yet
\* to set up the device, which reports `rate` Hz and `channels` channels.
AudioCaptureNew(rate, channels) ==
  /\ device_rate = rate
  /\ device_channels = channels
  /\ muted = FALSE
  /\ ring_len = 0
  /\ cb_pc = "idle"
  /\ cb_len = 0
  /\ loop_pc = "setup"
  /\ encoded_rx_alive = TRUE
  /\ encoded_sent = 0
  /\ stream_error = FALSE
  /\ muted_sent = FALSE
  /\ muted_discards = FALSE
  /\ unmuted_pushed = 0
  /\ unmuted_sent = FALSE
  /\ unmuted_failed = FALSE

\* The input stream plays from stream.play() until run_capture returns and
\* drops it: already while the encoder is made, then all through the loop.
StreamPlaying == loop_pc \in {"encoder", "poll", "sleep", "encode"}

\* encoded_tx is owned by run_capture: it is dropped, and the channel
\* disconnected, when run_capture returns.
EncodedTxAlive == loop_pc \notin {"exited", "failed"}

\* run_capture up to stream.play(): every failing step (no input device,
\* default_input_config, build_input_stream, play) returns Err with `?`.
AfterSetup(setup_ok) == IF setup_ok THEN "encoder" ELSE "failed"

\* The thread finds the device, builds the stream and starts it.
Setup ==
  /\ loop_pc = "setup"
  /\ \E setup_ok \in BOOLEAN : loop_pc' = AfterSetup(setup_ok)
  /\ UNCHANGED <<device_rate, device_channels, muted, ring_len, cb_pc, cb_len,
                 encoded_rx_alive, encoded_sent, stream_error, muted_sent,
                 muted_discards, unmuted_pushed, unmuted_sent, unmuted_failed>>
  /\ UNCHANGED notCapture

\* opus::Encoder::new(..).map_err(..)?: Err returns from run_capture with
\* the stream already playing.
AfterEncoderNew(lib_ok) == IF lib_ok THEN "poll" ELSE "failed"

\* The thread makes the encoder, the denoiser and its buffers while the
\* stream plays, and enters the loop.
EncoderNew ==
  /\ loop_pc = "encoder"
  /\ \E lib_ok \in BOOLEAN : loop_pc' = AfterEncoderNew(lib_ok)
  /\ UNCHANGED <<device_rate, device_channels, muted, ring_len, cb_pc, cb_len,
                 encoded_rx_alive, encoded_sent, stream_error, muted_sent,
                 muted_discards, unmuted_pushed, unmuted_sent, unmuted_failed>>
  /\ UNCHANGED notCapture

\* The error callback of the input stream: `tracing::error!` only.
StreamError ==
  /\ StreamPlaying
  /\ stream_error' = TRUE
  /\ UNCHANGED <<device_rate, device_channels, muted, ring_len, cb_pc, cb_len,
                 loop_pc, encoded_rx_alive, encoded_sent, muted_sent,
                 muted_discards, unmuted_pushed, unmuted_sent, unmuted_failed>>
  /\ UNCHANGED notCapture

\* Samples that were accepted by the callback and have not yet left the loop
\* as a frame: buffered, held by a callback about to push, or popped.
Pending ==
  ring_len + (IF cb_pc = "push" THEN cb_len ELSE 0)
           + (IF loop_pc = "encode" THEN device_frame_samples ELSE 0)

\* AudioCapture::set_muted(m).
set_muted(m) ==
  /\ muted' = m
  /\ IF m
       THEN /\ IF muted THEN UNCHANGED <<muted_sent, muted_discards>>
                         ELSE /\ muted_sent' = FALSE
                              /\ muted_discards' = FALSE
            /\ UNCHANGED <<unmuted_pushed, unmuted_sent, unmuted_failed>>
       ELSE /\ unmuted_pushed' = 0
            /\ unmuted_sent' = FALSE
            /\ unmuted_failed' = FALSE
            /\ UNCHANGED <<muted_sent, muted_discards>>
  /\ UNCHANGED <<device_rate, device_channels, ring_len, cb_pc, cb_len, loop_pc,
                 encoded_rx_alive, encoded_sent, stream_error>>
  /\ UNCHANGED notCapture

SetMuted == \E m \in BOOLEAN : set_muted(m)

\* Mutant of MutedDiscards: the callback never looks at the flag.
NeverDiscards(flag) == FALSE

\* Input callback, `if muted_flag.load() { return; }`: whether the callback
\* returns without buffering, given the flag it loaded.
MutedDiscards(flag) == flag

\* Input callback, first half: the device hands over `frames` sample frames
\* and the callback loads the mute flag.
InputCallbackLoad ==
  /\ StreamPlaying
  /\ cb_pc = "idle"
  /\ \E frames \in 1..MaxCallbackFrames :
       IF MutedDiscards(muted)
         THEN /\ muted_discards' = TRUE
              /\ UNCHANGED <<cb_pc, cb_len>>
         ELSE /\ cb_pc' = "push"
              /\ cb_len' = frames * device_channels
              /\ UNCHANGED muted_discards
  /\ UNCHANGED <<device_rate, device_channels, muted, ring_len, loop_pc,
                 encoded_rx_alive, encoded_sent, stream_error, muted_sent,
                 unmuted_pushed, unmuted_sent, unmuted_failed>>
  /\ UNCHANGED notCapture

\* Mutant of PushSlice: everything is pushed, room or not.
PushSliceAll(occupied, n) == occupied + n

\* producer.push_slice(data): pushes what fits, returns the count (ignored).
PushSlice(occupied, n) == IF occupied + n <= ring_size THEN occupied + n ELSE ring_size

\* Saturating count up to one device frame.
UpToFrame(n) == IF n >= device_frame_samples THEN device_frame_samples ELSE n

\* Input callback, second half: `let _ = producer.push_slice(data)`.
InputCallbackPush ==
  /\ cb_pc = "push"
  /\ ring_len' = PushSlice(ring_len, cb_len)
  /\ cb_pc' = "idle"
  /\ cb_len' = 0
  /\ unmuted_pushed' = UpToFrame(unmuted_pushed + cb_len)
  /\ UNCHANGED <<device_rate, device_channels, muted, loop_pc, encoded_rx_alive,
                 encoded_sent, stream_error, muted_sent, muted_discards,
                 unmuted_sent, unmuted_failed>>
  /\ UNCHANGED notCapture

\* Mutant of Starved: the loop waits for more than one chunk.
StarvedOffByOne(occupied) == occupied <= device_frame_samples

\* Processing loop: `consumer.occupied_len() < device_frame_samples`.
Starved(occupied) == occupied < device_frame_samples

\* Mutant of AfterStarved: the `continue` is missing and the loop goes on to
\* process device_buf.
AfterStarvedFallsThrough == "encode"

\* Processing loop, starved branch: `sleep(5 ms); continue;`, nothing is
\* popped and steps 1 to 5 are skipped.
AfterStarved == "sleep"

\* Processing loop, top: go to sleep when starved, else pop one device
\* frame into device_buf.
Poll ==
  /\ loop_pc = "poll"
  /\ IF Starved(ring_len)
       THEN /\ loop_pc' = AfterStarved
            /\ UNCHANGED ring_len
       ELSE /\ ring_len' = ring_len - device_frame_samples
            /\ loop_pc' = "encode"
  /\ UNCHANGED <<device_rate, device_channels, muted, cb_pc, cb_len,
                 encoded_rx_alive, encoded_sent, stream_error, muted_sent,
                 muted_discards, unmuted_pushed, unmuted_sent, unmuted_failed>>
  /\ UNCHANGED notCapture

\* Processing loop, starved: `std::thread::sleep(5 ms); continue;`.
Sleep ==
  /\ loop_pc = "sleep"
  /\ loop_pc' = "poll"
  /\ UNCHANGED <<device_rate, device_channels, muted, ring_len, cb_pc, cb_len,
                 encoded_rx_alive, encoded_sent, stream_error, muted_sent,
                 muted_discards, unmuted_pushed, unmuted_sent, unmuted_failed>>
  /\ UNCHANGED notCapture

\* Processing loop, steps 1 to 5 on the popped chunk: downmix, resample,
\* denoise, voice activity, then encoder.encode_float (encode_ok is its
\* outcome) and encoded_tx.send, which fails once the receiver is dropped.
Encode ==
  /\ loop_pc = "encode"
  /\ \E encode_ok \in BOOLEAN :
       IF encode_ok
         THEN IF encoded_rx_alive
                THEN /\ encoded_sent' = 1 - encoded_sent
                     /\ muted_sent' = (muted \/ muted_sent)
                     /\ unmuted_sent' = TRUE
                     /\ loop_pc' = "poll"
                     /\ UNCHANGED unmuted_failed
                ELSE /\ loop_pc' = "exited"
                     /\ UNCHANGED <<encoded_sent, muted_sent, unmuted_sent, unmuted_failed>>
         ELSE /\ unmuted_failed' = TRUE
              /\ loop_pc' = "poll"
              /\ UNCHANGED <<encoded_sent, muted_sent, unmuted_sent>>
  /\ UNCHANGED <<device_rate, device_channels, muted, ring_len, cb_pc, cb_len,
                 encoded_rx_alive, stream_error, muted_discards, unmuted_pushed>>
  /\ UNCHANGED notCapture

\* The owner of AudioCapture drops it, and encoded_rx with it.
DropEncodedRx ==
  /\ encoded_rx_alive
  /\ encoded_rx_alive' = FALSE
  /\ UNCHANGED <<device_rate, device_channels, muted, ring_len, cb_pc, cb_len,
                 loop_pc, encoded_sent, stream_error, muted_sent,
                 muted_discards, unmuted_pushed, unmuted_sent, unmuted_failed>>
  /\ UNCHANGED notCapture

NextCapture ==
  \/ Setup
  \/ EncoderNew
  \/ StreamError
  \/ SetMuted
  \/ InputCallbackLoad
  \/ InputCallbackPush
  \/ Poll
  \/ Sleep
  \/ Encode
  \/ DropEncodedRx

\* ------------------------------------------------------------------------
\* Signaling client
\* ------------------------------------------------------------------------

\* signaling.rs: RTT_PING_INTERVAL, in seconds.
RTT_PING_INTERVAL == 2

\* Duration::as_millis of a whole number of seconds.
MILLIS_PER_SEC == 1000
as_millis(secs) == secs * MILLIS_PER_SEC

\* SignalMessage values, as <<variant, fields...>> in declaration order.
PeerJoined(peer_id, name) == <<"peer_joined", peer_id, name>>
Leave(room_id, peer_id) == <<"leave", room_id, peer_id>>

\* Result<SignalMessage, serde_json::Error>.
Ok(v) == [ok |-> TRUE, value |-> v]
Err == [ok |-> FALSE, value |-> <<>>]

\* Text frames the server may send.
TextPong == "pong"
TextPeerJoinedNoName == "{\"type\":\"peer_joined\",\"peer_id\":\"p1\"}"
TextPeerLeftNoId == "{\"type\":\"peer_left\"}"
InTexts == {TextPong, TextPeerJoinedNoName, TextPeerLeftNoId}

\* serde_json::from_str::<SignalMessage> on the texts above: an internally
\* tagged enum ("type", snake_case); PeerJoined.name has #[serde(default)],
\* PeerLeft.peer_id is required; a text that is no JSON object fails.
from_str(text) ==
  CASE text = TextPeerJoinedNoName -> Ok(PeerJoined("p1", ""))
    [] OTHER -> Err

\* Messages the engine sends.
OutMessages == {Leave("r1", "me")}

\* serde_json::to_string(&msg) on the messages the model sends.
to_string(msg) ==
  CASE msg = Leave("r1", "me") ->
         "{\"type\":\"leave\",\"room_id\":\"r1\",\"peer_id\":\"me\"}"
    [] msg = <<"kick", "p1">> ->
         "{\"type\":\"kick\",\"peer_id\":\"p1\"}"

\* tungstenite Message values; `reply` marks the "pong" text the server sent
\* in answer to the followed "ping" (the wire text is the same).
Text(t) == [kind |-> "text", text |-> t, reply |-> FALSE]
PongReply == [kind |-> "text", text |-> TextPong, reply |-> TRUE]
WsPong == [kind |-> "pong", text |-> "", reply |-> FALSE]
\* Some(Err(_)) from the stream, for instance a text frame that is not UTF-8:
\* the read fails, the connection stays open.
StreamErr == [kind |-> "error", text |-> "", reply |-> FALSE]

\* Frames the server may send unprompted.
InFrames == {Text(t) : t \in InTexts} \cup {WsPong}

\* connect(url), once the websocket is open and both tasks are spawned.
Connect(open) ==
  /\ ws_open = open
  /\ ws_rx = <<>>
  /\ outgoing = <<>>
  /\ outgoing_tx_alive = open
  /\ incoming = <<>>
  /\ incoming_rx_alive = open
  /\ rtt_rx = <<>>
  /\ ping_sent_at = <<>>
  /\ rtt_due = RTT_PING_INTERVAL
  /\ writer_state = IF open THEN "running" ELSE "not_started"
  /\ reader_state = IF open THEN "running" ELSE "not_started"
  /\ followed_ping = <<>>
  /\ since_ping = <<>>
  /\ pong_parsed = FALSE
  /\ malformed_seen = "no"

\* Seconds counted up to MaxAge.
Older(age) == IF age < MaxAge THEN age + 1 ELSE MaxAge
OlderOpt(opt) == IF opt = <<>> THEN <<>> ELSE <<Older(opt[1])>>

\* The writer task is inside `ws_tx.send(frame).await`: the frame is handed
\* to the sink and the task is suspended until the socket takes it or the
\* send fails. The state tells the RTT "ping" from every other frame.
WriterSending == {"send_frame", "send_ping"}

\* The writer task has not left its loop: it holds outgoing_rx. In
\* "stamping" it has taken the rtt_interval tick and is at
\* `ping_sent_at_write.lock().await`, the send time not stored yet.
WriterAlive ==
  writer_state \in {"running", "stamping"} \/ writer_state \in WriterSending

\* The reader task has not left its loop: it holds incoming_tx. In "locking"
\* it has taken a text "pong" off the stream and is at
\* `ping_sent_at_read.lock().await`, the send time not taken yet.
ReaderAlive == reader_state \in {"running", "locking"}

\* The followed ping ages until the reader task has handled its pong: `age`
\* counts from the recorded send time, `delay` from the moment the socket
\* took the frame; `waited` tells that time passed in between.
OlderPing(fp) ==
  IF fp # <<>> /\ fp[1].state # "read"
    THEN IF fp[1].state = "stamped"
           THEN <<[fp[1] EXCEPT !.age = Older(fp[1].age), !.waited = TRUE]>>
           ELSE <<[fp[1] EXCEPT !.age = Older(fp[1].age),
                                !.delay = Older(fp[1].delay)]>>
    ELSE fp

Backlog == Len(ws_rx) + Len(incoming) + Len(rtt_rx)

\* One second passes. A writer task waiting in select! is woken when
\* rtt_interval is due, so time does not pass over a due tick there; inside
\* a send the task is not in select! and the tick goes overdue. The mutex
\* is held only across statements without an await (the store at
\* signaling.rs:77, lines 94-98), so a task at lock() does not wait there
\* for a second.
Tick ==
  /\ WriterAlive \/ ReaderAlive
  /\ writer_state # "stamping"
  /\ reader_state # "locking"
  /\ writer_state = "running" => rtt_due > 0
  /\ writer_state \in WriterSending => rtt_due > -MaxOverdue
  /\ rtt_due' = IF WriterAlive THEN rtt_due - 1 ELSE rtt_due
  /\ ping_sent_at' = OlderOpt(ping_sent_at)
  /\ since_ping' = OlderOpt(since_ping)
  /\ followed_ping' = OlderPing(followed_ping)
  /\ UNCHANGED <<ws_open, ws_rx, outgoing, outgoing_tx_alive, incoming,
                 incoming_rx_alive, rtt_rx, writer_state, reader_state,
                 pong_parsed, malformed_seen>>
  /\ UNCHANGED notSignal

\* ---- the engine's side of the channels ----

\* outgoing_tx.send(msg): succeeds while the writer task holds outgoing_rx.
EngineSend ==
  /\ outgoing_tx_alive
  /\ WriterAlive
  /\ Len(outgoing) < MaxOutgoing
  /\ \E msg \in OutMessages : outgoing' = Append(outgoing, msg)
  /\ UNCHANGED <<ws_open, ws_rx, outgoing_tx_alive, incoming,
                 incoming_rx_alive, rtt_rx, ping_sent_at, rtt_due,
                 writer_state, reader_state, followed_ping, since_ping,
                 pong_parsed, malformed_seen>>
  /\ UNCHANGED notSignal

\* incoming_rx.recv() and rtt_rx.recv(): the engine takes the oldest item.
EngineRecv ==
  /\ \/ /\ incoming_rx_alive
        /\ incoming # <<>>
        /\ incoming' = Tail(incoming)
        /\ UNCHANGED rtt_rx
     \/ /\ rtt_rx # <<>>
        /\ rtt_rx' = Tail(rtt_rx)
        /\ UNCHANGED incoming
  /\ UNCHANGED <<ws_open, ws_rx, outgoing, outgoing_tx_alive,
                 incoming_rx_alive, ping_sent_at, rtt_due, writer_state,
                 reader_state, followed_ping, since_ping, pong_parsed,
                 malformed_seen>>
  /\ UNCHANGED notSignal

\* The engine ends its session and drops its channel handles: messages
\* queued on incoming are dropped with incoming_rx, messages queued on
\* outgoing stay for the writer task.
EngineDrop ==
  /\ incoming_rx_alive
  /\ outgoing_tx_alive
  /\ incoming_rx_alive' = FALSE
  /\ outgoing_tx_alive' = FALSE
  /\ incoming' = <<>>
  /\ UNCHANGED <<ws_open, ws_rx, outgoing, rtt_rx, ping_sent_at, rtt_due,
                 writer_state, reader_state, followed_ping, since_ping,
                 pong_parsed, malformed_seen>>
  /\ UNCHANGED notSignal

\* ---- the server's side of the websocket ----

\* The server sends a frame unprompted, or the stream reports an error.
ServerSend ==
  /\ ws_open
  /\ ReaderAlive
  /\ Backlog < MaxBacklog
  /\ \E f \in InFrames \cup {StreamErr} : ws_rx' = Append(ws_rx, f)
  /\ UNCHANGED <<ws_open, outgoing, outgoing_tx_alive, incoming,
                 incoming_rx_alive, rtt_rx, ping_sent_at, rtt_due,
                 writer_state, reader_state, followed_ping, since_ping,
                 pong_parsed, malformed_seen>>
  /\ UNCHANGED notSignal

\* The server answers the followed "ping" with a "pong".
ServerPong ==
  /\ ws_open
  /\ ReaderAlive
  /\ Backlog < MaxBacklog
  /\ followed_ping # <<>>
  /\ followed_ping[1].state = "sent"
  /\ followed_ping' = <<[followed_ping[1] EXCEPT !.state = "answered"]>>
  /\ ws_rx' = Append(ws_rx, PongReply)
  /\ UNCHANGED <<ws_open, outgoing, outgoing_tx_alive, incoming,
                 incoming_rx_alive, rtt_rx, ping_sent_at, rtt_due,
                 writer_state, reader_state, since_ping, pong_parsed,
                 malformed_seen>>
  /\ UNCHANGED notSignal

\* The connection closes: later sends fail, and the stream ends once the
\* frames already received are read.
ServerClose ==
  /\ ws_open
  /\ ws_open' = FALSE
  /\ UNCHANGED <<ws_rx, outgoing, outgoing_tx_alive, incoming,
                 incoming_rx_alive, rtt_rx, ping_sent_at, rtt_due,
                 writer_state, reader_state, followed_ping, since_ping,
                 pong_parsed, malformed_seen>>
  /\ UNCHANGED notSignal

\* ---- writer task ----

\* ws_tx.send(frame).await returns: Ok when the socket took the frame, Err
\* once the connection is closed, and the task then breaks out of its loop.
AfterWsSend == IF ws_open THEN "running" ELSE "send_failed"

\* select! branch outgoing_rx.recv_async(): take the message, serialize it
\* and start the send, or break when every sender is dropped and the queue
\* is empty.
WriterForward ==
  /\ writer_state = "running"
  /\ IF outgoing # <<>>
       THEN /\ to_string(Head(outgoing)) # ""
            /\ outgoing' = Tail(outgoing)
            /\ writer_state' = "send_frame"
       ELSE /\ ~outgoing_tx_alive
            /\ writer_state' = "senders_dropped"
            /\ UNCHANGED outgoing
  /\ UNCHANGED <<ws_open, ws_rx, outgoing_tx_alive, incoming,
                 incoming_rx_alive, rtt_rx, ping_sent_at, rtt_due,
                 reader_state, followed_ping, since_ping, pong_parsed,
                 malformed_seen>>
  /\ UNCHANGED notSignal

\* select! branch ping_interval.tick(): start the send of a websocket
\* keepalive ping. The period of ping_interval is left open: the tick may
\* fall at any time.
WriterKeepalive ==
  /\ writer_state = "running"
  /\ writer_state' = "send_frame"
  /\ UNCHANGED <<ws_open, ws_rx, outgoing, outgoing_tx_alive, incoming,
                 incoming_rx_alive, rtt_rx, ping_sent_at, rtt_due,
                 reader_state, followed_ping, since_ping, pong_parsed,
                 malformed_seen>>
  /\ UNCHANGED notSignal

\* The followed ping once the writer task has stored another send time: a
\* ping whose pong the reader task has not handled to the end is superseded;
\* otherwise the ping being stamped is followed from now on. `recorded`
\* will tell whether a send time was recorded when the reader task took the
\* ping's pong off the stream.
FollowPing(fp) ==
  IF fp # <<>> /\ fp[1].state # "read"
    THEN <<[fp[1] EXCEPT !.superseded = TRUE]>>
    ELSE <<[state |-> "stamped", age |-> 0, delay |-> 0, waited |-> FALSE,
            superseded |-> FALSE, recorded |-> FALSE, sample |-> <<>>,
            latest |-> 0]>>

\* The followed ping once the send of a "ping" has returned: it is on the
\* wire when it is the ping just stamped and the send succeeded (`sent`).
PingOut(fp, sent) ==
  IF fp # <<>> /\ fp[1].state = "stamped" /\ sent
    THEN <<[fp[1] EXCEPT !.state = "sent"]>>
    ELSE fp

\* Mutant of StampPing: the send time is kept when one is already recorded.
StampPingIfNone(slot) == IF slot = <<>> THEN <<0>> ELSE slot

\* `*guard = Some(Instant::now())`: what the Option holds after the store.
StampPing(slot) == <<0>>

\* select! branch rtt_interval.tick(): the tick is taken and the task goes
\* to lock ping_sent_at; until it has the lock nothing is stored and the
\* reader task may run. The interval keeps its schedule: the next tick is
\* due one period after this one was due, not after it was served.
WriterRttPing ==
  /\ writer_state = "running"
  /\ rtt_due <= 0
  /\ rtt_due' = rtt_due + RTT_PING_INTERVAL
  /\ writer_state' = "stamping"
  /\ UNCHANGED <<ws_open, ws_rx, outgoing, outgoing_tx_alive, incoming,
                 incoming_rx_alive, rtt_rx, ping_sent_at, reader_state,
                 followed_ping, since_ping, pong_parsed, malformed_seen>>
  /\ UNCHANGED notSignal

\* `*ping_sent_at_write.lock().await = Some(Instant::now())` once the lock
\* is granted: the send time is stored over whatever was there, the guard
\* is dropped at the end of the statement, and the task starts the send of
\* "ping". Instant::now() is taken before the lock is awaited (the value of
\* an assignment is evaluated first); no second passes at the lock, so the
\* time stored is 0 seconds old.
WriterStamp ==
  /\ writer_state = "stamping"
  /\ ping_sent_at' = StampPing(ping_sent_at)
  /\ writer_state' = "send_ping"
  /\ since_ping' = <<0>>
  /\ followed_ping' = FollowPing(followed_ping)
  /\ UNCHANGED <<ws_open, ws_rx, outgoing, outgoing_tx_alive, incoming,
                 incoming_rx_alive, rtt_rx, rtt_due, reader_state,
                 pong_parsed, malformed_seen>>
  /\ UNCHANGED notSignal

\* The send the writer task is suspended in returns: the task goes back to
\* select!, or breaks when the send failed.
WriterSend ==
  /\ writer_state \in WriterSending
  /\ writer_state' = AfterWsSend
  /\ followed_ping' = IF writer_state = "send_ping"
                        THEN PingOut(followed_ping, ws_open)
                        ELSE followed_ping
  /\ UNCHANGED <<ws_open, ws_rx, outgoing, outgoing_tx_alive, incoming,
                 incoming_rx_alive, rtt_rx, ping_sent_at, rtt_due,
                 reader_state, since_ping, pong_parsed, malformed_seen>>
  /\ UNCHANGED notSignal

\* ---- reader task ----

\* Mutant of IsPong: no text is taken for the RTT reply.
IsPongNever(text) == FALSE

\* `if text == "pong"`.
IsPong(text) == text = TextPong

\* Mutant of AfterParseError: a text that fails to parse ends the task.
AfterParseErrorBreak == "parse_error"

\* The Err arm of from_str only logs: the task stays in its loop.
AfterParseError == "running"

\* Mutant of Take: the send time stays where it is.
TakeKeeps(slot) == slot

\* `guard.take()`: what is left in the Option.
Take(slot) == <<>>

\* The RTT path, entered: the frame `f` is "pong" and the task goes to lock
\* ping_sent_at. Nothing is taken or sent before it has the lock, and the
\* writer task may store a send time in between.
ReadPong(f) ==
  /\ reader_state' = "locking"
  /\ followed_ping' =
       IF f.reply
         THEN <<[followed_ping[1] EXCEPT
                   !.state = "popped",
                   !.recorded = (ping_sent_at # <<>>)]>>
         ELSE followed_ping
  /\ UNCHANGED <<incoming, rtt_rx, ping_sent_at, pong_parsed, malformed_seen>>

\* The SignalMessage path: deserialize and forward, or log and drop.
ReadSignal(f) ==
  LET parsed == from_str(f.text) IN
  /\ pong_parsed' = (pong_parsed \/ f.text = TextPong)
  /\ IF parsed.ok
       THEN IF incoming_rx_alive
              THEN /\ incoming' = Append(incoming, parsed.value)
                   /\ malformed_seen' =
                        IF malformed_seen = "no" THEN "no" ELSE "forwarded"
                   /\ UNCHANGED reader_state
              ELSE /\ reader_state' = "receiver_dropped"
                   /\ UNCHANGED <<incoming, malformed_seen>>
       ELSE /\ reader_state' = AfterParseError
            /\ malformed_seen' = "dropped"
            /\ UNCHANGED incoming
  /\ followed_ping' =
       IF f.reply
         THEN <<[followed_ping[1] EXCEPT !.state = "read"]>>
         ELSE followed_ping
  /\ UNCHANGED <<ping_sent_at, rtt_rx>>

\* `while let Some(Ok(msg)) = ws_rx.next().await` yields a frame: an error
\* ends the loop, a text "pong" sends the task to the lock of the RTT path,
\* any other text is deserialized and forwarded in this step (the channel
\* send does not await), and other frames are skipped.
ReaderRead ==
  /\ reader_state = "running"
  /\ ws_rx # <<>>
  /\ ws_rx' = Tail(ws_rx)
  /\ LET f == Head(ws_rx) IN
       CASE f.kind = "error" ->
              /\ reader_state' = "stream_error"
              /\ UNCHANGED <<incoming, rtt_rx, ping_sent_at, followed_ping,
                             pong_parsed, malformed_seen>>
         [] f.kind = "text" /\ IsPong(f.text) -> ReadPong(f)
         [] f.kind = "text" /\ ~IsPong(f.text) -> ReadSignal(f)
         [] OTHER ->
              UNCHANGED <<incoming, rtt_rx, ping_sent_at, reader_state,
                          followed_ping, pong_parsed, malformed_seen>>
  /\ UNCHANGED <<ws_open, outgoing, outgoing_tx_alive, incoming_rx_alive,
                 rtt_due, writer_state, since_ping>>
  /\ UNCHANGED notSignal

\* The RTT path under the lock: guard.take(), one sample on rtt_tx when a
\* send time was recorded, and `continue` drops the guard; no await lies
\* between the lock and the continue.
ReaderTake ==
  /\ reader_state = "locking"
  /\ reader_state' = "running"
  /\ LET sample == IF ping_sent_at # <<>>
                     THEN <<as_millis(ping_sent_at[1])>>
                     ELSE <<>>
     IN  /\ ping_sent_at' = Take(ping_sent_at)
         /\ rtt_rx' = rtt_rx \o sample
         /\ followed_ping' =
              IF followed_ping # <<>> /\ followed_ping[1].state = "popped"
                THEN <<[followed_ping[1] EXCEPT
                          !.state = "read",
                          !.sample = sample,
                          !.latest = since_ping[1]]>>
                ELSE followed_ping
  /\ UNCHANGED <<ws_open, ws_rx, outgoing, outgoing_tx_alive, incoming,
                 incoming_rx_alive, rtt_due, writer_state, since_ping,
                 pong_parsed, malformed_seen>>
  /\ UNCHANGED notSignal

\* ws_rx.next() yields None: the connection is closed and nothing is left.
ReaderStreamEnd ==
  /\ reader_state = "running"
  /\ ws_rx = <<>>
  /\ ~ws_open
  /\ reader_state' = "stream_closed"
  /\ UNCHANGED <<ws_open, ws_rx, outgoing, outgoing_tx_alive, incoming,
                 incoming_rx_alive, rtt_rx, ping_sent_at, rtt_due,
                 writer_state, followed_ping, since_ping, pong_parsed,
                 malformed_seen>>
  /\ UNCHANGED notSignal

NextSignal ==
  \/ Tick
  \/ EngineSend
  \/ EngineRecv
  \/ EngineDrop
  \/ ServerSend
  \/ ServerPong
  \/ ServerClose
  \/ WriterForward
  \/ WriterKeepalive
  \/ WriterRttPing
  \/ WriterStamp
  \/ WriterSend
  \/ ReaderRead
  \/ ReaderTake
  \/ ReaderStreamEnd

\* ------------------------------------------------------------------------
\* Playback: ring buffer and output callback
\* ------------------------------------------------------------------------

\* Output device rates explored, in Hz.
OutRates == {5, 10}

\* Content of the output buffer before the callback writes it.
STALE == -1

\* 0.0, what the callback writes on underrun. The samples written to the
\* ring are numbered 1, 2, ... in write order, so none of them is 0.
SILENCE == 0

\* run_playback / run_mic_test: (rate / 5) * channels, 200 ms of output.
out_ring_size == (out_rate \div 5) * out_channels

\* The playback thread once the output stream plays: an empty ring, the
\* callback not running.
PlaybackNew(rate, channels) ==
  /\ out_rate = rate
  /\ out_channels = channels
  /\ out_ring = <<>>
  /\ out_pc = "idle"
  /\ out_data = <<>>
  /\ out_pos = 0
  /\ next_sample = 1
  /\ last_played = 0

\* The samples numbered from `first`, `n` of them.
Samples(first, n) == [i \in 1..n |-> first + i - 1]

\* Producer::push_slice: appends as many of `slice` as fit, drops the rest.
PushSliceInto(ring, slice, capacity) ==
  LET free == capacity - Len(ring)
      n == IF Len(slice) < free THEN Len(slice) ELSE free
  IN  ring \o SubSeq(slice, 1, n)

\* The playback loop pushes the converted samples of one received chunk.
PlaybackPush ==
  /\ \E n \in 1..MaxPush :
       /\ next_sample + n - 1 <= MaxSamples
       /\ out_ring' = PushSliceInto(out_ring, Samples(next_sample, n), out_ring_size)
       /\ next_sample' = next_sample + n
  /\ UNCHANGED <<out_rate, out_channels, out_pc, out_data, out_pos,
                 last_played>>
  /\ UNCHANGED notPlayback

\* cpal calls the output callback with a buffer of its choosing.
OutputCallbackBegin ==
  /\ out_pc = "idle"
  /\ \E len \in 1..MaxOutBuf : out_data' = [i \in 1..len |-> STALE]
  /\ out_pos' = 0
  /\ out_pc' = "filling"
  /\ UNCHANGED <<out_rate, out_channels, out_ring, next_sample, last_played>>
  /\ UNCHANGED notPlayback

\* Mutant of AfterTryPop: the occupied slot is read and not released.
AfterTryPopKept(ring) == ring

\* Consumer::try_pop on an occupied ring: the oldest sample leaves the ring.
AfterTryPop(ring) == Tail(ring)

\* One iteration of `for sample in data.iter_mut()`:
\* `*sample = consumer.try_pop().unwrap_or(0.0)`.
OutputCallbackPop ==
  /\ out_pc = "filling"
  /\ out_pos < Len(out_data)
  /\ out_pos' = out_pos + 1
  /\ IF out_ring # <<>>
       THEN /\ out_data' = [out_data EXCEPT ![out_pos + 1] = Head(out_ring)]
            /\ out_ring' = AfterTryPop(out_ring)
            /\ last_played' = Head(out_ring)
       ELSE /\ out_data' = [out_data EXCEPT ![out_pos + 1] = SILENCE]
            /\ UNCHANGED <<out_ring, last_played>>
  /\ UNCHANGED <<out_rate, out_channels, out_pc, next_sample>>
  /\ UNCHANGED notPlayback

\* The loop is over: the callback returns the buffer.
OutputCallbackReturn ==
  /\ out_pc = "filling"
  /\ out_pos = Len(out_data)
  /\ out_pc' = "idle"
  /\ UNCHANGED <<out_rate, out_channels, out_ring, out_data, out_pos,
                 next_sample, last_played>>
  /\ UNCHANGED notPlayback

NextPlayback ==
  \/ PlaybackPush
  \/ OutputCallbackBegin
  \/ OutputCallbackPop
  \/ OutputCallbackReturn

\* ------------------------------------------------------------------------
\* PeerConn: the decode loop spawned by on_track
\* ------------------------------------------------------------------------

\* RTP payloads a remote peer may send: empty, bytes Opus cannot decode, and
\* a valid Opus packet (the PCM it decodes to is tagged with the number of
\* the packet that carried it).
EmptyPayload == <<>>
CorruptPayload == <<"corrupt">>
OpusPayload(n) == <<"opus", n>>
Payloads(n) == {EmptyPayload, CorruptPayload, OpusPayload(n)}

\* What track.read_rtp() yields: Ok((rtp_packet, _)) or Err(_).
ReadOk(n, payload) == [read_ok |-> TRUE, seq |-> n, payload |-> payload]
ReadErr(n) == [read_ok |-> FALSE, seq |-> n, payload |-> <<>>]

\* decoder.decode_float(payload, &mut pcm_buf, false) on the payloads above.
decode_float(payload) ==
  IF payload # <<>> /\ payload[1] = "opus"
    THEN [ok |-> TRUE, pcm |-> payload[2]]
    ELSE [ok |-> FALSE, pcm |-> 0]

\* DecodedFrame { samples: pcm_buf[..samples].to_vec() }.
DecodedFrame(pcm) == [samples |-> pcm]

\* PeerConn::new: the decoded channel exists, no remote track has arrived.
DecodeNew(alive) ==
  /\ track_rx = <<>>
  /\ next_packet = 1
  /\ decode_pc = "no_track"
  /\ decoded = <<>>
  /\ decoded_rx_alive = alive
  /\ decode_skipped = {}
  /\ decode_resumed = FALSE

\* on_track fires: the task is spawned and creates its decoder, or returns
\* if opus::Decoder::new fails.
OnTrack ==
  /\ decode_pc = "no_track"
  /\ \E decoder_ok \in BOOLEAN :
       decode_pc' = IF decoder_ok THEN "running" ELSE "no_decoder"
  /\ UNCHANGED <<track_rx, next_packet, decoded, decoded_rx_alive,
                 decode_skipped, decode_resumed>>
  /\ UNCHANGED notDecode

\* The remote track delivers a packet, or the transport fails.
TrackReceive ==
  /\ next_packet <= MaxPackets
  /\ Len(track_rx) < MaxTrackBacklog
  /\ \E item \in {ReadOk(next_packet, p) : p \in Payloads(next_packet)}
                   \cup {ReadErr(next_packet)} :
       track_rx' = Append(track_rx, item)
  /\ next_packet' = next_packet + 1
  /\ UNCHANGED <<decode_pc, decoded, decoded_rx_alive, decode_skipped,
                 decode_resumed>>
  /\ UNCHANGED notDecode

\* Mutant of AfterDecodeError: a packet that fails to decode ends the loop.
AfterDecodeErrorBreak == "decode_failed"

\* The Err arm of decode_float only logs: the loop goes on.
AfterDecodeError == "running"

\* Mutant of AfterReadError: a failed read is logged and the loop goes on.
AfterReadErrorContinue == "running"

\* The Err arm of read_rtp: break.
AfterReadError == "read_failed"

\* One iteration of the decode loop: read a packet; skip an empty payload;
\* decode; send the frame, or break if the receiver is gone.
DecodeLoopRead ==
  /\ decode_pc = "running"
  /\ track_rx # <<>>
  /\ track_rx' = Tail(track_rx)
  /\ LET item == Head(track_rx)
         result == decode_float(item.payload)
     IN  IF ~item.read_ok
           THEN /\ decode_pc' = AfterReadError
                /\ UNCHANGED <<decoded, decode_skipped, decode_resumed>>
           ELSE IF item.payload = EmptyPayload
             THEN /\ decode_skipped' = decode_skipped \cup {"empty"}
                  /\ UNCHANGED <<decode_pc, decoded, decode_resumed>>
             ELSE IF ~result.ok
               THEN /\ decode_pc' = AfterDecodeError
                    /\ decode_skipped' = decode_skipped \cup {"decode_error"}
                    /\ UNCHANGED <<decoded, decode_resumed>>
               ELSE IF decoded_rx_alive
                 THEN /\ decoded' = Append(decoded, DecodedFrame(result.pcm))
                      /\ decode_resumed' =
                           (decode_resumed \/ decode_skipped # {})
                      /\ UNCHANGED <<decode_pc, decode_skipped>>
                 ELSE /\ decode_pc' = "receiver_dropped"
                      /\ UNCHANGED <<decoded, decode_skipped, decode_resumed>>
  /\ UNCHANGED <<next_packet, decoded_rx_alive>>
  /\ UNCHANGED notDecode

\* The engine takes the oldest DecodedFrame from decoded_rx.
DecodedRecv ==
  /\ decoded_rx_alive
  /\ decoded # <<>>
  /\ decoded' = Tail(decoded)
  /\ UNCHANGED <<track_rx, next_packet, decode_pc, decoded_rx_alive,
                 decode_skipped, decode_resumed>>
  /\ UNCHANGED notDecode

\* The PeerConn, which owns decoded_rx, is dropped: queued frames go too.
DropDecodedRx ==
  /\ decoded_rx_alive
  /\ decoded_rx_alive' = FALSE
  /\ decoded' = <<>>
  /\ UNCHANGED <<track_rx, next_packet, decode_pc, decode_skipped,
                 decode_resumed>>
  /\ UNCHANGED notDecode

NextDecode ==
  \/ OnTrack
  \/ TrackReceive
  \/ DecodeLoopRead
  \/ DecodedRecv
  \/ DropDecodedRx

\* ------------------------------------------------------------------------
\* PeerConn: the on_ice_candidate callback
\* ------------------------------------------------------------------------

\* Option<T>: None is <<>>, Some(v) is <<v>>.
None == <<>>
Some(v) == <<v>>

\* Peer ids a PeerConn may be constructed with.
PeerIds == {"p1", "p2"}

\* What the ICE agent hands the callback: None at the end of gathering, or
\* Some(candidate). `json` is what c.to_json() gives for the candidate: None
\* if it fails, else Some of the RTCIceCandidateInit fields.
EndOfCandidates == [some |-> FALSE, json |-> None]
Unserializable == [some |-> TRUE, json |-> None]
Candidate(n, mid, mline) ==
  [some |-> TRUE,
   json |-> Some([candidate |-> n, sdp_mid |-> mid, sdp_mline_index |-> mline])]

\* The n-th event of a gathering run.
IceEvents(n) ==
  {EndOfCandidates, Unserializable}
    \cup {Candidate(n, mid, mline) : mid \in {None, Some("0")},
                                     mline \in {None, Some(0)}}

\* Mutant of IceCandidatePayload: sdp_mid is not carried over.
IceCandidatePayloadNoMid(json) ==
  [kind |-> "ice_candidate",
   candidate |-> json.candidate,
   sdp_mid |-> None,
   sdp_mline_index |-> json.sdp_mline_index]

\* SignalPayload::IceCandidate { candidate, sdp_mid, sdp_mline_index }.
IceCandidatePayload(json) ==
  [kind |-> "ice_candidate",
   candidate |-> json.candidate,
   sdp_mid |-> json.sdp_mid,
   sdp_mline_index |-> json.sdp_mline_index]

\* PeerConn::new(peer_id, on_ice_candidate): the callback is registered.
IceNew(id, alive) ==
  /\ pid = id
  /\ ice_pending = <<>>
  /\ next_candidate = 1
  /\ ice_sink = <<>>
  /\ ice_rx_alive = alive
  /\ ice_forwarded = 0

\* The ICE agent gathers a candidate, or finishes gathering.
IceGather ==
  /\ next_candidate <= MaxCandidates
  /\ Len(ice_pending) < MaxIceBacklog
  /\ \E ev \in IceEvents(next_candidate) :
       ice_pending' = Append(ice_pending, ev)
  /\ next_candidate' = next_candidate + 1
  /\ UNCHANGED <<pid, ice_sink, ice_rx_alive, ice_forwarded>>
  /\ UNCHANGED notIce

\* The callback runs for the oldest pending event: `let _ =
\* ice_tx.send((pid, payload))` for a candidate that serializes.
OnIceCandidate ==
  /\ ice_pending # <<>>
  /\ ice_pending' = Tail(ice_pending)
  /\ LET ev == Head(ice_pending) IN
       IF ev.some /\ ev.json # None
         THEN /\ ice_sink' =
                   IF ice_rx_alive
                     THEN Append(ice_sink,
                                 <<pid, IceCandidatePayload(ev.json[1])>>)
                     ELSE ice_sink
              /\ ice_forwarded' = ice_forwarded + 1
         ELSE UNCHANGED <<ice_sink, ice_forwarded>>
  /\ UNCHANGED <<pid, next_candidate, ice_rx_alive>>
  /\ UNCHANGED notIce

\* The owner of the sink takes the oldest pair.
IceSinkRecv ==
  /\ ice_rx_alive
  /\ ice_sink # <<>>
  /\ ice_sink' = Tail(ice_sink)
  /\ UNCHANGED <<pid, ice_pending, next_candidate, ice_rx_alive,
                 ice_forwarded>>
  /\ UNCHANGED notIce

\* The owner of the sink drops its receiver: queued pairs go with it.
IceSinkDrop ==
  /\ ice_rx_alive
  /\ ice_rx_alive' = FALSE
  /\ ice_sink' = <<>>
  /\ UNCHANGED <<pid, ice_pending, next_candidate, ice_forwarded>>
  /\ UNCHANGED notIce

NextIce ==
  \/ IceGather
  \/ OnIceCandidate
  \/ IceSinkRecv
  \/ IceSinkDrop

\* ------------------------------------------------------------------------
\* AudioCapture: the processing loop, sample by sample
\* ------------------------------------------------------------------------

\* types.rs: SAMPLE_RATE.
SAMPLE_RATE == 48000

\* Sample rates of the devices followed sample by sample.
FrameRates == {44100, 48000}

\* Milliseconds of audio the device hands over in one callback.
BurstMillis == {10, 100}

\* A callback of a device whose period is longer than the ring.
StallMillis == {250}

\* The k-th sample the device delivers is the number k; 0.0 is ZERO.
ZERO == 0

\* Samples are kept as runs <<first, last>> of consecutive sample numbers.
RunLen(r) == r[2] - r[1] + 1

RECURSIVE RunsLen(_)
\* occupied_len of a buffer kept as runs.
RunsLen(runs) ==
  IF runs = <<>> THEN 0 ELSE RunLen(runs[1]) + RunsLen(Tail(runs))

\* producer.push_slice: the first `fit` of the samples numbered from `first`
\* go behind the samples in the ring.
PushRuns(runs, first, fit) ==
  IF fit = 0
    THEN runs
    ELSE IF runs # <<>> /\ runs[Len(runs)][2] + 1 = first
           THEN [runs EXCEPT ![Len(runs)][2] = first + fit - 1]
           ELSE Append(runs, <<first, first + fit - 1>>)

RECURSIVE TakeRuns(_, _)
\* consumer.pop_slice: the oldest n samples.
TakeRuns(runs, n) ==
  IF n = 0 \/ runs = <<>>
    THEN <<>>
    ELSE IF RunLen(runs[1]) <= n
           THEN <<runs[1]>> \o TakeRuns(Tail(runs), n - RunLen(runs[1]))
           ELSE <<<<runs[1][1], runs[1][1] + n - 1>>>>

RECURSIVE DropRuns(_, _)
\* consumer.pop_slice: what stays in the ring.
DropRuns(runs, n) ==
  IF n = 0 \/ runs = <<>>
    THEN runs
    ELSE IF RunLen(runs[1]) <= n
           THEN DropRuns(Tail(runs), n - RunLen(runs[1]))
           ELSE <<<<runs[1][1] + n, runs[1][2]>>>> \o Tail(runs)

RECURSIVE Expand(_)
\* The samples of a buffer kept as runs, one by one.
Expand(runs) ==
  IF runs = <<>>
    THEN <<>>
    ELSE [n \in 1..RunLen(runs[1]) |-> runs[1][1] + n - 1]
           \o Expand(Tail(runs))

\* run_capture: need_resample and need_downmix.
need_resample == device_rate # SAMPLE_RATE
need_downmix == device_channels > 1

\* Step 1: device_buf.chunks(channels), each frame replaced by its mean,
\* kept as the frame it is the mean of.
Downmix(buf) ==
  [j \in 1..(Len(buf) \div device_channels) |->
     [mean_of |-> SubSeq(buf, (j - 1) * device_channels + 1,
                         j * device_channels)]]

\* mono.get(idx).unwrap_or(&dflt), idx counted from 0.
GetOr(mono, idx, dflt) == IF idx < Len(mono) THEN mono[idx + 1] ELSE dflt

\* The source position is computed in f64 (IEEE 754 binary64: 53
\* significant bits, round to nearest, ties to even). A natural below 2^54
\* is kept in two limbs: <<hi, lo>> is hi * 2^27 + lo.
WDouble(w) ==
  <<2 * w[1] + (2 * w[2]) \div 134217728, (2 * w[2]) % 134217728>>

WInc(w) == IF w[2] = 134217727 THEN <<w[1] + 1, 0>> ELSE <<w[1], w[2] + 1>>

WGeq(x, y) == x[1] > y[1] \/ (x[1] = y[1] /\ x[2] >= y[2])

WSub(x, y) ==
  IF x[2] >= y[2]
    THEN <<x[1] - y[1], x[2] - y[2]>>
    ELSE <<x[1] - y[1] - 1, x[2] + 134217728 - y[2]>>

WPow2(k) == IF k >= 27 THEN <<2 ^ (k - 27), 0>> ELSE <<0, 2 ^ k>>

\* One step of binary long division by w: the next bit of the quotient q,
\* the remainder r staying below w; `len` counts the bits put out, `k` the
\* significant ones (from the first 1 on).
DivStep(qr, w) ==
  IF WGeq(WDouble(qr.r), w)
    THEN [q |-> WInc(WDouble(qr.q)), r |-> WSub(WDouble(qr.r), w),
          len |-> qr.len + 1, k |-> qr.k + 1]
    ELSE [q |-> WDouble(qr.q), r |-> WDouble(qr.r),
          len |-> qr.len + 1, k |-> IF qr.k > 0 THEN qr.k + 1 ELSE 0]

RECURSIVE DivBits(_, _, _)
\* The quotient to `steps` bits.
DivBits(qr, w, steps) ==
  IF qr.len >= steps THEN qr ELSE DivBits(DivStep(qr, w), w, steps)

RECURSIVE FracBits(_, _)
\* The quotient to 53 significant bits.
FracBits(qr, w) ==
  IF qr.k >= 53 THEN qr ELSE FracBits(DivStep(qr, w), w)

\* Round to nearest, ties to even: the quotient q of a division by w that
\* left the remainder r goes one up when the rest is above half a unit, or
\* is half a unit and q is odd.
RoundEven(q, r, w) ==
  IF WDouble(r) = w
    THEN IF q[2] % 2 = 1 THEN WInc(q) ELSE q
    ELSE IF WGeq(WDouble(r), w) THEN WInc(q) ELSE q

RECURSIVE Scaled(_, _, _)
\* x / y brought into [1, 2) by powers of two: the quotient is
\* (x / y) * 2^k of the result.
Scaled(x, y, k) ==
  IF x < y
    THEN Scaled(2 * x, y, k - 1)
    ELSE IF x >= 2 * y
           THEN Scaled(x, 2 * y, k + 1)
           ELSE [x |-> x, y |-> y, k |-> k]

\* `let ratio = SAMPLE_RATE as f64 / device_rate as f64`: the f64 nearest
\* to the quotient, m * 2^(k - 52) with m of 53 bits.
ratio(rate) ==
  LET sc == Scaled(SAMPLE_RATE, rate, 0)
      qr == DivBits([q |-> <<0, 1>>, r |-> <<0, sc.x - sc.y>>, len |-> 0,
                     k |-> 1], <<0, sc.y>>, 52)
  IN  [m |-> RoundEven(qr.q, qr.r, <<0, sc.y>>), k |-> sc.k]

\* `let src_pos = i as f64 / ratio; let idx = src_pos as usize; let frac =
\* src_pos - idx as f64`, x the ratio: the f64 nearest to the quotient,
\* split into its integer part idx and the rest frac = num / 2^len (the
\* subtraction is exact). `whole` is the quotient up to the binary point,
\* `part` the bits after it that a significand of 53 bits has room for.
src_pos(i, x) ==
  LET whole == DivBits([q |-> <<0, 0>>, r |-> <<0, i>>, len |-> 0, k |-> 0],
                       x.m, 52 - x.k)
      part == FracBits([q |-> <<0, 0>>, r |-> whole.r, len |-> 0,
                        k |-> whole.k], x.m)
      num == RoundEven(part.q, part.r, x.m)
  IN  IF i = 0
        THEN [idx |-> 0, num |-> <<0, 0>>, len |-> 0]
        ELSE IF num = WPow2(part.len)
               THEN [idx |-> whole.q[2] + 1, num |-> <<0, 0>>,
                     len |-> part.len]
               ELSE [idx |-> whole.q[2], num |-> num, len |-> part.len]

\* The device rates at which run_capture resamples.
ResampledRates == FrameRates \ {SAMPLE_RATE}

\* The source positions of the FRAME_SIZE output samples, per device rate:
\* they depend on the rate and on i alone.
SourcePositions ==
  [rate \in ResampledRates |->
     LET x == ratio(rate)
     IN  [n \in 1..FRAME_SIZE |-> src_pos(n - 1, x)]]

\* `(s0 as f64 * (1.0 - frac) + s1 as f64 * frac) as f32`, kept as its
\* operands, frac = num / 2^len; frac = 0 gives s0.
Lerp(s0, s1, num, len) ==
  IF num = <<0, 0>>
    THEN s0
    ELSE [s0 |-> s0, s1 |-> s1, frac |-> [num |-> num, len |-> len]]

\* Step 2, need_resample: linear interpolation at src_pos = i / ratio with
\* ratio = SAMPLE_RATE / device_rate, both quotients in f64.
Resample(mono) ==
  [n \in 1..FRAME_SIZE |->
     LET pos == SourcePositions[device_rate][n]
         s0 == GetOr(mono, pos.idx, ZERO)
         s1 == GetOr(mono, pos.idx + 1, s0)
     IN  Lerp(s0, s1, pos.num, pos.len)]

\* Mutant of CopyFrame: the last sample of mono is not copied.
CopyFrameShort(mono) ==
  [n \in 1..FRAME_SIZE |-> IF n < Len(mono) THEN mono[n] ELSE ZERO]

\* Step 2, otherwise: copy min(mono.len(), FRAME_SIZE) samples, zero the rest.
CopyFrame(mono) ==
  [n \in 1..FRAME_SIZE |-> IF n <= Len(mono) THEN mono[n] ELSE ZERO]

\* Step 3, noise suppression on: each sample replaced by the denoiser's
\* output for it, kept as the sample it was computed for.
Denoise(buf) == [n \in 1..Len(buf) |-> [denoised |-> buf[n]]]

\* Steps 1 to 3: the mono_48k_buf handed to encoder.encode_float.
EncoderInput(buf, ns) ==
  LET mono == IF need_downmix THEN Downmix(buf) ELSE buf
      mono_48k == IF need_resample THEN Resample(mono) ELSE CopyFrame(mono)
  IN  IF ns THEN Denoise(mono_48k) ELSE mono_48k

\* The buffers of run_capture before the loop, with the flag the caller
\* passed as noise_suppression; mono_48k_buf is vec![0.0; FRAME_SIZE] once
\* the thread runs (frame_size = 0: no capture thread). The device's
\* callbacks hand over one of `periods` milliseconds each.
FramesNew(ns, frame_size, periods) ==
  /\ noise_suppression = ns
  /\ ns_loaded = FALSE
  /\ callback_millis = periods
  /\ speaking = FALSE
  /\ frame_amps = <<>>
  /\ capture_ring = <<>>
  /\ bursts = 0
  /\ captured = 0
  /\ overflowed = FALSE
  /\ device_buf = <<>>
  /\ mono_48k_buf = [n \in 1..frame_size |-> ZERO]
  /\ chunk_pc = "poll"
  /\ chunks_popped = 0
  /\ frames_sent = 0
  /\ last_encode = "none"
  /\ encode_failures = 0
  /\ sent_after_failure = FALSE

\* Input callback with the mute flag clear: `ms` milliseconds of samples
\* arrive and producer.push_slice pushes the ones that fit.
CaptureBurst ==
  /\ bursts < MaxBursts
  /\ \E ms \in callback_millis :
       LET len == ((device_rate * ms) \div 1000) * device_channels
           occupied == RunsLen(capture_ring)
           fit == PushSlice(occupied, len) - occupied
       IN  /\ capture_ring' = PushRuns(capture_ring, captured + 1, fit)
           /\ captured' = captured + len
           /\ overflowed' = (overflowed \/ fit < len)
  /\ bursts' = bursts + 1
  /\ UNCHANGED <<noise_suppression, ns_loaded, device_buf, mono_48k_buf, chunk_pc,
                 chunks_popped, frames_sent, last_encode, encode_failures,
                 sent_after_failure, callback_millis, speaking, frame_amps>>
  /\ UNCHANGED notFrames

\* Processing loop, not starved: consumer.pop_slice(&mut device_buf).
PopChunk ==
  /\ chunk_pc = "poll"
  /\ ~Starved(RunsLen(capture_ring))
  /\ device_buf' = TakeRuns(capture_ring, device_frame_samples)
  /\ capture_ring' = DropRuns(capture_ring, device_frame_samples)
  /\ chunk_pc' = "popped"
  /\ chunks_popped' = chunks_popped + 1
  /\ UNCHANGED <<noise_suppression, ns_loaded, bursts, captured, overflowed,
                 mono_48k_buf, frames_sent, last_encode, encode_failures,
                 sent_after_failure, callback_millis, speaking, frame_amps>>
  /\ UNCHANGED notFrames

\* Mutant of AfterEncodeError: a failed encode ends the loop.
AfterEncodeErrorBreak == "exited"

\* The Err arm of encode_float only logs: the loop goes on.
AfterEncodeError == "poll"

\* Sample values of the k-th processed frame after the denoise step, in
\* thousandths of full scale (a frame is shortened to two values): frames
\* that peak at exactly 0.01 alternate with frames whose negative peak is
\* just beyond it.
FrameAmps(k) == IF k % 2 = 1 THEN <<10, -10>> ELSE <<3, -11>>

\* f32::abs.
Abs(x) == IF x < 0 THEN -x ELSE x

\* f32::max.
Max(x, y) == IF x < y THEN y ELSE x

RECURSIVE Peak(_)
\* `mono_48k_buf.iter().map(|s| s.abs()).fold(0.0f32, f32::max)`.
Peak(amps) ==
  IF amps = <<>>
    THEN 0
    ELSE Max(Peak(SubSeq(amps, 1, Len(amps) - 1)), Abs(amps[Len(amps)]))

\* 0.01 in thousandths.
VAD_THRESHOLD == 10

\* Mutant of IsSpeaking: a peak of exactly 0.01 counts as speech.
IsSpeakingAtThreshold(peak) == peak >= VAD_THRESHOLD

\* Step 4: `peak > 0.01`.
IsSpeaking(peak) == peak > VAD_THRESHOLD

\* Processing loop, steps 1 to 5 on device_buf; encode_ok is the outcome of
\* encode_float. The consumer of encoded_tx is alive.
ProcessChunk ==
  /\ chunk_pc = "popped"
  /\ ns_loaded' = noise_suppression
  /\ mono_48k_buf' = EncoderInput(Expand(device_buf), noise_suppression)
  /\ frame_amps' = FrameAmps(chunks_popped)
  /\ speaking' = IsSpeaking(Peak(FrameAmps(chunks_popped)))
  /\ \E encode_ok \in BOOLEAN :
       IF encode_ok
         THEN /\ frames_sent' = frames_sent + 1
              /\ chunk_pc' = "poll"
              /\ last_encode' = "ok"
              /\ sent_after_failure' = (encode_failures > 0)
              /\ UNCHANGED encode_failures
         ELSE /\ encode_failures < MaxEncodeFailures
              /\ frames_sent' = frames_sent
              /\ chunk_pc' = AfterEncodeError
              /\ last_encode' = "err"
              /\ encode_failures' = encode_failures + 1
              /\ UNCHANGED sent_after_failure
  /\ UNCHANGED <<noise_suppression, capture_ring, bursts, captured, overflowed,
                 device_buf, chunks_popped, callback_millis>>
  /\ UNCHANGED notFrames

\* Peak-relevant samples of the denoised frames the loop may meet: a frame
\* whose peak is at the threshold and one whose peak is above it.
VadFrames == {FrameAmps(0), FrameAmps(1)}

\* Processing loop, steps 1 to 5 on the popped chunk with the flag of step 4
\* followed: `speaking.store(peak > 0.01)` on the denoised frame `amps`,
\* then encoder.encode_float (encode_ok is its outcome) and encoded_tx.send,
\* which fails once the receiver is dropped.
EncodeFrame ==
  /\ loop_pc = "encode"
  /\ \E amps \in VadFrames :
       /\ frame_amps' = amps
       /\ speaking' = IsSpeaking(Peak(amps))
  /\ \E encode_ok \in BOOLEAN :
       IF encode_ok
         THEN IF encoded_rx_alive
                THEN /\ encoded_sent' = 1 - encoded_sent
                     /\ muted_sent' = (muted \/ muted_sent)
                     /\ unmuted_sent' = TRUE
                     /\ loop_pc' = "poll"
                     /\ UNCHANGED unmuted_failed
                ELSE /\ loop_pc' = "exited"
                     /\ UNCHANGED <<encoded_sent, muted_sent, unmuted_sent, unmuted_failed>>
         ELSE /\ unmuted_failed' = TRUE
              /\ loop_pc' = "poll"
              /\ UNCHANGED <<encoded_sent, muted_sent, unmuted_sent>>
  /\ UNCHANGED <<device_rate, device_channels, muted, ring_len, cb_pc, cb_len,
                 encoded_rx_alive, stream_error, muted_discards, unmuted_pushed>>
  /\ UNCHANGED framesRest
  /\ UNCHANGED notCaptureFrames

\* The capture thread with the speaking flag followed, and the owner calling
\* set_muted and dropping the capture.
NextVad ==
  \/ Setup
  \/ EncoderNew
  \/ SetMuted
  \/ InputCallbackLoad
  \/ InputCallbackPush
  \/ Poll
  \/ Sleep
  \/ EncodeFrame
  \/ DropEncodedRx

\* The owner of the flag stores into it while the capture runs, as the
\* command set_noise_suppression(enabled) does.
SetNoiseSuppression ==
  /\ \E flag \in BOOLEAN : noise_suppression' = flag
  /\ UNCHANGED <<chunk_pc, ns_loaded, capture_ring, device_buf, mono_48k_buf,
                 frames_sent, bursts, captured, overflowed, chunks_popped,
                 last_encode, encode_failures, sent_after_failure,
                 callback_millis, speaking, frame_amps>>
  /\ UNCHANGED notFrames

NextFrames ==
  \/ SetNoiseSuppression
  \/ CaptureBurst
  \/ PopChunk
  \/ ProcessChunk

\* ------------------------------------------------------------------------
\* PeerConn: SDP and ICE negotiation
\* ------------------------------------------------------------------------

\* SDP texts the remote side sends, and SDP texts the connection creates.
RemoteSdps == {"remote1", "remote2"}
LocalSdps == {"local1", "local2"}

\* RTCSessionDescription.
Description(type, sdp) == [sdp_type |-> type, sdp |-> sdp]

\* The fallible calls of each operation, in the order of the code.
CreateOfferSteps == <<"create_offer", "set_local_description">>
HandleOfferSteps ==
  <<"RTCSessionDescription::offer", "set_remote_description", "create_answer",
    "set_local_description">>
HandleAnswerSteps == <<"RTCSessionDescription::answer", "set_remote_description">>
AddIceCandidateSteps == <<"add_ice_candidate">>

\* Tasks that hold a reference to the PeerConn: its methods take &self, and
\* between two awaits of one call the calls of other tasks run.
NegTasks == 1..MaxNegTasks

\* A call that has made no call of the connection yet.
NewCall(op, sdp) == [op |-> op, sdp |-> sdp, created |-> "", made |-> <<>>]

\* The call a task is in, or the one it begins.
CallOf(slot, op, sdp) == IF slot = <<>> THEN NewCall(op, sdp) ELSE slot[1]

\* The calls made once the next call of `steps` gave `lib_ok`.
MadeAfter(made, steps, lib_ok) ==
  Append(made, [call |-> steps[Len(made) + 1], ok |-> lib_ok])

\* Mutant of Returns: a failed call does not end the operation.
ReturnsAtEnd(made, steps) == Len(made) = Len(steps)

\* `?` after each call: the operation returns at the first failed call, or
\* after its last one.
Returns(made, steps) == ~made[Len(made)].ok \/ Len(made) = Len(steps)

\* What the operation returns: Err from a failed call, else Ok(value).
Returned(made, value) ==
  IF made[Len(made)].ok THEN <<Ok(value)>> ELSE <<Err>>

\* PeerConn::new: no description is set and no operation has run.
NegotiationNew(local, remote, tasks) ==
  /\ local_description = local
  /\ remote_description = remote
  /\ neg_op = "none"
  /\ neg_calls = <<>>
  /\ neg_result = <<>>
  /\ negotiations = 0
  /\ neg_returned = 0
  /\ neg_pending = [t \in tasks |-> <<>>]

\* PeerConn::create_offer, from one await to the next; `created` is the
\* offer the connection creates.
create_offer ==
  \E t \in DOMAIN neg_pending, lib_ok \in BOOLEAN, created \in LocalSdps :
    LET c == CallOf(neg_pending[t], "create_offer", "")
        made == MadeAfter(c.made, CreateOfferSteps, lib_ok)
        step == made[Len(made)].call
        offer == IF step = "create_offer" THEN created ELSE c.created
    IN  /\ c.op = "create_offer"
        /\ neg_pending[t] = <<>> => negotiations < MaxNegotiations
        /\ negotiations' = IF neg_pending[t] = <<>> THEN negotiations + 1
                                                   ELSE negotiations
        /\ local_description' =
             IF step = "set_local_description" /\ lib_ok
               THEN <<Description("offer", offer)>>
               ELSE local_description
        /\ IF Returns(made, CreateOfferSteps)
             THEN /\ neg_pending' = [neg_pending EXCEPT ![t] = <<>>]
                  /\ neg_op' = "create_offer"
                  /\ neg_calls' = made
                  /\ neg_result' = Returned(made, offer)
                  /\ neg_returned' = neg_returned + 1
             ELSE /\ neg_pending' =
                       [neg_pending EXCEPT
                          ![t] = <<[c EXCEPT !.made = made, !.created = offer]>>]
                  /\ UNCHANGED <<neg_op, neg_calls, neg_result, neg_returned>>
        /\ UNCHANGED remote_description
        /\ UNCHANGED notNegotiate

\* PeerConn::handle_offer(sdp), from one await to the next; `created` is
\* the answer the connection creates.
handle_offer ==
  \E t \in DOMAIN neg_pending, lib_ok \in BOOLEAN, sdp \in RemoteSdps,
     created \in LocalSdps :
    LET c == CallOf(neg_pending[t], "handle_offer", sdp)
        made == MadeAfter(c.made, HandleOfferSteps, lib_ok)
        step == made[Len(made)].call
        answer == IF step = "create_answer" THEN created ELSE c.created
    IN  /\ c.op = "handle_offer"
        /\ neg_pending[t] = <<>> => negotiations < MaxNegotiations
        /\ negotiations' = IF neg_pending[t] = <<>> THEN negotiations + 1
                                                   ELSE negotiations
        /\ remote_description' =
             IF step = "set_remote_description" /\ lib_ok
               THEN <<Description("offer", c.sdp)>>
               ELSE remote_description
        /\ local_description' =
             IF step = "set_local_description" /\ lib_ok
               THEN <<Description("answer", answer)>>
               ELSE local_description
        /\ IF Returns(made, HandleOfferSteps)
             THEN /\ neg_pending' = [neg_pending EXCEPT ![t] = <<>>]
                  /\ neg_op' = "handle_offer"
                  /\ neg_calls' = made
                  /\ neg_result' = Returned(made, answer)
                  /\ neg_returned' = neg_returned + 1
             ELSE /\ neg_pending' =
                       [neg_pending EXCEPT
                          ![t] = <<[c EXCEPT !.made = made, !.created = answer]>>]
                  /\ UNCHANGED <<neg_op, neg_calls, neg_result, neg_returned>>
        /\ UNCHANGED notNegotiate

\* PeerConn::handle_answer(sdp), from one await to the next.
handle_answer ==
  \E t \in DOMAIN neg_pending, lib_ok \in BOOLEAN, sdp \in RemoteSdps :
    LET c == CallOf(neg_pending[t], "handle_answer", sdp)
        made == MadeAfter(c.made, HandleAnswerSteps, lib_ok)
        step == made[Len(made)].call
    IN  /\ c.op = "handle_answer"
        /\ neg_pending[t] = <<>> => negotiations < MaxNegotiations
        /\ negotiations' = IF neg_pending[t] = <<>> THEN negotiations + 1
                                                   ELSE negotiations
        /\ remote_description' =
             IF step = "set_remote_description" /\ lib_ok
               THEN <<Description("answer", c.sdp)>>
               ELSE remote_description
        /\ IF Returns(made, HandleAnswerSteps)
             THEN /\ neg_pending' = [neg_pending EXCEPT ![t] = <<>>]
                  /\ neg_op' = "handle_answer"
                  /\ neg_calls' = made
                  /\ neg_result' = Returned(made, "()")
                  /\ neg_returned' = neg_returned + 1
             ELSE /\ neg_pending' =
                       [neg_pending EXCEPT ![t] = <<[c EXCEPT !.made = made]>>]
                  /\ UNCHANGED <<neg_op, neg_calls, neg_result, neg_returned>>
        /\ UNCHANGED local_description
        /\ UNCHANGED notNegotiate

\* PeerConn::add_ice_candidate(candidate, sdp_mid, sdp_mline_index): its one
\* await.
add_ice_candidate ==
  \E t \in DOMAIN neg_pending, lib_ok \in BOOLEAN :
    LET made == MadeAfter(<<>>, AddIceCandidateSteps, lib_ok) IN
    /\ neg_pending[t] = <<>>
    /\ negotiations < MaxNegotiations
    /\ negotiations' = negotiations + 1
    /\ neg_op' = "add_ice_candidate"
    /\ neg_calls' = made
    /\ neg_result' = Returned(made, "()")
    /\ neg_returned' = neg_returned + 1
    /\ UNCHANGED <<local_description, remote_description, neg_pending>>
    /\ UNCHANGED notNegotiate

NextNegotiate ==
  \/ close
  \/ create_offer
  \/ handle_offer
  \/ handle_answer
  \/ add_ice_candidate

\* ------------------------------------------------------------------------
\* Mic test (loopback)
\* ------------------------------------------------------------------------

\* (in_rate / 50) * in_channels: one 20 ms chunk of the input device.
mic_frame_samples == (mic_rate \div 50) * mic_channels

\* (in_rate / 5) * in_channels: the capacity of the input ring.
mic_ring_size == (mic_rate \div 5) * mic_channels

\* level_counter >= 3: a level event is emitted every third frame.
LEVEL_EVERY == 3

\* MicTest::new: the stop flag is false and the thread is spawned
\* (started = FALSE: no mic test).
MicTestNew(rate, channels, started) ==
  /\ mic_rate = rate
  /\ mic_channels = channels
  /\ mic_stop = FALSE
  /\ mic_handle = IF started THEN "held" ELSE "none"
  /\ mic_pc = IF started THEN "setup" ELSE "none"
  /\ mic_occupied = 0
  /\ level_counter = 0
  /\ mic_stop_at = "none"
  /\ mic_last = "none"

\* The input stream plays from in_stream.play() until run_mic_test
\* returns: through the rest of the setup and all through the loop.
MicStreamsPlaying == mic_pc \in {"output", "poll", "sleep", "frame"}

\* run_mic_test up to in_stream.play(): any `?` (devices, input config,
\* build_input_stream, play) may return Err.
MicAfterSetup(setup_ok) == IF setup_ok THEN "output" ELSE "failed"

\* The thread finds the devices, builds the input stream and starts it.
MicSetup ==
  /\ mic_pc = "setup"
  /\ \E setup_ok \in BOOLEAN : mic_pc' = MicAfterSetup(setup_ok)
  /\ UNCHANGED <<mic_rate, mic_channels, mic_stop, mic_handle, mic_occupied,
                 level_counter, mic_stop_at, mic_last>>
  /\ UNCHANGED notMic

\* run_mic_test from the output config to the loop: any `?` (output
\* config, build_output_stream, play, Encoder::new, Decoder::new) may return
\* Err, with the input stream already playing.
MicAfterOutputSetup(setup_ok) == IF setup_ok THEN "poll" ELSE "failed"

\* The thread builds and starts the output stream and makes the codec while
\* the input stream plays, and enters the loop.
MicOutputSetup ==
  /\ mic_pc = "output"
  /\ \E setup_ok \in BOOLEAN : mic_pc' = MicAfterOutputSetup(setup_ok)
  /\ UNCHANGED <<mic_rate, mic_channels, mic_stop, mic_handle, mic_occupied,
                 level_counter, mic_stop_at, mic_last>>
  /\ UNCHANGED notMic

\* occupied_len after producer.push_slice of n samples: what does not fit
\* is left out.
MicPush(n) ==
  IF mic_occupied + n <= mic_ring_size THEN mic_occupied + n ELSE mic_ring_size

\* The input callback: `let _ = producer.push_slice(data)`.
MicInputCallback ==
  /\ MicStreamsPlaying
  /\ \E ms \in BurstMillis :
       mic_occupied' = MicPush(((ms * mic_rate) \div 1000) * mic_channels)
  /\ mic_occupied' # mic_occupied
  /\ UNCHANGED <<mic_rate, mic_channels, mic_stop, mic_handle, mic_pc,
                 level_counter, mic_stop_at, mic_last>>
  /\ UNCHANGED notMic

\* The store of `true` into the stop flag, by stop() or by drop.
StoreStop ==
  /\ mic_stop' = TRUE
  /\ mic_stop_at' = IF mic_stop THEN mic_stop_at ELSE mic_pc

\* MicTest::stop.
MicStop ==
  /\ mic_handle = "held"
  /\ StoreStop
  /\ UNCHANGED <<mic_rate, mic_channels, mic_handle, mic_pc, mic_occupied,
                 level_counter, mic_last>>
  /\ UNCHANGED notMic

\* Drop for MicTest.
MicDrop ==
  /\ mic_handle = "held"
  /\ mic_handle' = "dropped"
  /\ StoreStop
  /\ UNCHANGED <<mic_rate, mic_channels, mic_pc, mic_occupied, level_counter,
                 mic_last>>
  /\ UNCHANGED notMic

\* Mutant of MicLoopCond: the loop does not look at the stop flag.
MicLoopCondTrue(stop) == TRUE

\* `while !stop.load(Ordering::Relaxed)`.
MicLoopCond(stop) == ~stop

\* The loop head: leave the loop, or sleep 5 ms when fewer than one chunk is
\* buffered, or pop one chunk.
MicPoll ==
  /\ mic_pc = "poll"
  /\ IF ~MicLoopCond(mic_stop)
       THEN /\ mic_pc' = "stopped"
            /\ UNCHANGED mic_occupied
       ELSE IF mic_occupied < mic_frame_samples
              THEN /\ mic_pc' = "sleep"
                   /\ UNCHANGED mic_occupied
              ELSE /\ mic_pc' = "frame"
                   /\ mic_occupied' = mic_occupied - mic_frame_samples
  /\ UNCHANGED <<mic_rate, mic_channels, mic_stop, mic_handle, level_counter,
                 mic_stop_at, mic_last>>
  /\ UNCHANGED notMic

\* std::thread::sleep(5 ms) returns; `continue`.
MicSleep ==
  /\ mic_pc = "sleep"
  /\ mic_pc' = "poll"
  /\ UNCHANGED <<mic_rate, mic_channels, mic_stop, mic_handle, mic_occupied,
                 level_counter, mic_stop_at, mic_last>>
  /\ UNCHANGED notMic

\* The rest of one iteration: downmix, resample, denoise, level event, then
\* encode and decode (`continue` on Err) and the push to the output ring.
\* No step of it waits.
MicProcess ==
  /\ mic_pc = "frame"
  /\ level_counter' = IF level_counter + 1 >= LEVEL_EVERY
                        THEN 0 ELSE level_counter + 1
  /\ \E outcome \in {"encode_err", "decode_err", "pushed"} :
       mic_last' = outcome
  /\ mic_pc' = "poll"
  /\ UNCHANGED <<mic_rate, mic_channels, mic_stop, mic_handle, mic_occupied,
                 mic_stop_at>>
  /\ UNCHANGED notMic

NextMicTest ==
  \/ MicSetup
  \/ MicOutputSetup
  \/ MicInputCallback
  \/ MicStop
  \/ MicDrop
  \/ MicPoll
  \/ MicSleep
  \/ MicProcess

\* ------------------------------------------------------------------------
\* PeerConn::send_audio, statement by statement, with concurrent callers
\* ------------------------------------------------------------------------

\* send_audio takes &self and PeerConn is Sync: tasks holding a reference to
\* the same PeerConn may run it in parallel.
Senders == 1..MaxSenders

\* Calls already made when exploration starts: none, and one short of the
\* 2^16 wrap of the sequence number.
SenderStarts == {0, U16 - 1}

\* No call in progress; `tasks` is the set of calling tasks.
SendersNew(tasks) ==
  /\ snd_pc = [t \in tasks |-> "idle"]
  /\ snd_seq = [t \in tasks |-> 0]
  /\ snd_ts = [t \in tasks |-> U32(0, 0)]
  /\ attempts = <<>>
  /\ calls_begun = 0

\* `let seq = self.rtp_seq.fetch_add(1, Ordering::Relaxed);`
FetchSeq ==
  /\ calls_begun < MaxSendCalls
  /\ \E t \in DOMAIN snd_pc :
       /\ snd_pc[t] = "idle"
       /\ snd_seq' = [snd_seq EXCEPT ![t] = rtp_seq]
       /\ snd_pc' = [snd_pc EXCEPT ![t] = "seq_taken"]
  /\ rtp_seq' = WrappingAddU16(rtp_seq, 1)
  /\ calls' = calls + 1
  /\ calls_begun' = calls_begun + 1
  /\ UNCHANGED <<rtp_ts, rtp_ssrc, closed, track, last_result, close_returned,
                 write_pending>>
  /\ UNCHANGED <<snd_ts, attempts>>
  /\ UNCHANGED notPeerSenders

\* `let ts = self.rtp_ts.fetch_add(FRAME_SIZE as u32, Ordering::Relaxed);`
FetchTs ==
  /\ \E t \in DOMAIN snd_pc :
       /\ snd_pc[t] = "seq_taken"
       /\ snd_ts' = [snd_ts EXCEPT ![t] = rtp_ts]
       /\ snd_pc' = [snd_pc EXCEPT ![t] = "ts_taken"]
  /\ rtp_ts' = WrappingAddU32(rtp_ts, FRAME_SIZE)
  /\ UNCHANGED <<rtp_seq, rtp_ssrc, closed, track, calls, last_result,
                 close_returned, write_pending>>
  /\ UNCHANGED <<snd_seq, attempts, calls_begun>>
  /\ UNCHANGED notPeerSenders

\* Mutant of AfterWriteRtp: a failed write gives the sequence number back.
AfterWriteRtpRollback(counter, write_ok) ==
  IF write_ok THEN counter ELSE WrappingAddU16(counter, U16 - 1)

\* `self.audio_track.write_rtp(&packet).await.context(..)?; Ok(())`: the
\* counter is not touched again, whatever the write gave.
AfterWriteRtp(counter, write_ok) == counter

\* The packet is built from the locals and handed to
\* audio_track.write_rtp; the call is suspended in the await.
WriteRtp ==
  /\ \E t \in DOMAIN snd_pc, data \in FrameData :
       LET packet == RtpPacket(snd_seq[t], snd_ts[t], rtp_ssrc, data) IN
       /\ snd_pc[t] = "ts_taken"
       /\ snd_pc' = [snd_pc EXCEPT ![t] = "writing"]
       /\ track' = <<packet>>
       /\ attempts' = Append(attempts, [packet |-> packet, result |-> "pending"])
  /\ UNCHANGED <<rtp_seq, rtp_ts, rtp_ssrc, closed, calls, last_result,
                 close_returned, write_pending>>
  /\ UNCHANGED <<snd_seq, snd_ts, calls_begun>>
  /\ UNCHANGED notPeerSenders

\* The attempt of the call that took sequence number `seq`.
AttemptOf(seq) ==
  CHOOSE i \in DOMAIN attempts :
    attempts[i].packet.header.sequence_number = seq

\* write_rtp(..).await of one suspended call returns, and the call with it.
WriteRtpReturn ==
  /\ \E t \in DOMAIN snd_pc, write_ok \in BOOLEAN :
       /\ snd_pc[t] = "writing"
       /\ snd_pc' = [snd_pc EXCEPT ![t] = "idle"]
       /\ attempts' = [attempts EXCEPT
                         ![AttemptOf(snd_seq[t])].result = SendResult(write_ok)]
       /\ last_result' = SendResult(write_ok)
       /\ rtp_seq' = AfterWriteRtp(rtp_seq, write_ok)
  /\ UNCHANGED <<rtp_ts, rtp_ssrc, closed, track, calls, close_returned,
                 write_pending>>
  /\ UNCHANGED <<snd_seq, snd_ts, calls_begun>>
  /\ UNCHANGED notPeerSenders

NextSenders ==
  \/ FetchSeq
  \/ FetchTs
  \/ WriteRtp
  \/ WriteRtpReturn
  \/ close

\* ------------------------------------------------------------------------
\* on_track for the remote tracks after the first
\* ------------------------------------------------------------------------

\* Only the first remote track has been handled so far (or none).
TracksNew(loops) == later_loops = loops

\* The PCM of a packet of the i-th later track.
LaterPcm(i) == <<"later_track", i>>

\* on_track fires again: the handler makes no difference between the first
\* track and a later one, it clones decoded_tx and spawns another task.
OnLaterTrack ==
  /\ decode_pc # "no_track"
  /\ Len(later_loops) < MaxLaterTracks
  /\ \E decoder_ok \in BOOLEAN :
       later_loops' =
         Append(later_loops, IF decoder_ok THEN "running" ELSE "no_decoder")
  /\ UNCHANGED decodeVars
  /\ UNCHANGED notDecodeTracks

\* One iteration of the loop of a later track: the read fails, or the packet
\* decodes and its frame goes to the same decoded channel.
LaterLoopRead ==
  /\ \E i \in DOMAIN later_loops, read_ok \in BOOLEAN :
       /\ later_loops[i] = "running"
       /\ IF ~read_ok
            THEN /\ later_loops' = [later_loops EXCEPT ![i] = AfterReadError]
                 /\ UNCHANGED decoded
            ELSE IF decoded_rx_alive
              THEN /\ Len(decoded) < MaxDecodedBacklog
                   /\ decoded' = Append(decoded, DecodedFrame(LaterPcm(i)))
                   /\ UNCHANGED later_loops
              ELSE /\ later_loops' =
                        [later_loops EXCEPT ![i] = "receiver_dropped"]
                   /\ UNCHANGED decoded
  /\ UNCHANGED <<track_rx, next_packet, decode_pc, decoded_rx_alive,
                 decode_skipped, decode_resumed>>
  /\ UNCHANGED notDecodeTracks

NextTracks ==
  \/ OnTrack
  \/ TrackReceive
  \/ DecodeLoopRead
  \/ DecodedRecv
  \/ DropDecodedRx
  \/ OnLaterTrack
  \/ LaterLoopRead

\* ------------------------------------------------------------------------
\* on_peer_connection_state_change
\* ------------------------------------------------------------------------

\* RTCPeerConnectionState values the handler is called with.
ConnectionStates ==
  {"new", "connecting", "connected", "disconnected", "failed", "closed"}

\* `state == Failed || state == Disconnected || state == Closed`.
ConnectionLost(state) == state \in {"failed", "disconnected", "closed"}

\* PeerConn::new registers the handler; nothing has been reported.
StateNew(state) ==
  /\ connection_state = state
  /\ lost_warned = FALSE
  /\ state_events = <<>>

\* Mutant of ClosedAfterStateChange: a lost connection is closed by the handler.
ClosedAfterStateChangeSelfDestruct(state, was_closed) ==
  was_closed \/ ConnectionLost(state)

\* The handler holds pid_log only: it has no handle to the connection, and
\* the connection is as closed after it as before.
ClosedAfterStateChange(state, was_closed) == was_closed

\* What the handler sends, emits or closes: tracing::info!, tracing::warn!
\* and an empty future, nothing else.
HandlerEmits(state) == <<>>

\* The connection reports a change of state and the handler runs.
on_peer_connection_state_change ==
  /\ \E state \in ConnectionStates \ {connection_state} :
       /\ connection_state' = state
       /\ lost_warned' = (lost_warned \/ ConnectionLost(state))
       /\ state_events' = state_events \o HandlerEmits(state)
       /\ closed' = ClosedAfterStateChange(state, closed)
  /\ UNCHANGED <<rtp_seq, rtp_ts, rtp_ssrc, track, calls, last_result,
                 close_returned, write_pending>>
  /\ UNCHANGED notPeerState

NextStateChange ==
  \/ on_peer_connection_state_change
  \/ close
  \/ OnTrack
  \/ TrackReceive
  \/ DecodeLoopRead
  \/ DecodedRecv

\* ------------------------------------------------------------------------
\* AudioPlayback::write from several tasks, and the playback loop
\* ------------------------------------------------------------------------

\* write takes &self and flume::Sender is Sync.
Writers == 1..MaxWriters

\* The k-th chunk written; `len` is the number of samples it has once the
\* loop has resampled and upmixed it.
Chunk(k, len) == [chunk |-> k, len |-> len]

\* The converted samples of a chunk, in order.
Converted(c) == [i \in 1..c.len |-> [chunk |-> c.chunk, pos |-> i]]

\* AudioPlayback::new: an empty channel; `tasks` is the set of writing tasks.
WritersNew(tasks) ==
  /\ play_rx = <<>>
  /\ wr_chunk = [w \in tasks |-> <<>>]
  /\ chunks_made = 0
  /\ sent_order = <<>>
  /\ pushed = <<>>

\* write, first half: `samples.to_vec()`.
WriteCopy ==
  /\ chunks_made < MaxChunks
  /\ \E w \in DOMAIN wr_chunk, len \in 1..MaxPush :
       /\ wr_chunk[w] = <<>>
       /\ wr_chunk' = [wr_chunk EXCEPT ![w] = <<Chunk(chunks_made + 1, len)>>]
  /\ chunks_made' = chunks_made + 1
  /\ UNCHANGED <<play_rx, sent_order, pushed>>
  /\ UNCHANGED notWriters

\* write, second half: `let _ = self.tx.send(..)`, one enqueue on the
\* unbounded channel.
WriteSend ==
  /\ \E w \in DOMAIN wr_chunk :
       /\ wr_chunk[w] # <<>>
       /\ play_rx' = Append(play_rx, wr_chunk[w][1])
       /\ sent_order' = Append(sent_order, wr_chunk[w][1].chunk)
       /\ wr_chunk' = [wr_chunk EXCEPT ![w] = <<>>]
  /\ UNCHANGED <<chunks_made, pushed>>
  /\ UNCHANGED notWriters

\* Mutant of Recv: the channel hands out the newest chunk.
RecvNewest(queue) == queue[Len(queue)]

\* `rx.recv()`: the oldest chunk on the channel.
Recv(queue) == Head(queue)

\* One iteration of `while let Ok(samples) = rx.recv()`: convert the chunk
\* and push it under the producer lock, which only this thread takes.
PlaybackRecv ==
  /\ play_rx # <<>>
  /\ LET c == Recv(play_rx)
         ring_after == PushSliceInto(out_ring, Converted(c), out_ring_size)
     IN  /\ play_rx' = SelectSeq(play_rx, LAMBDA q : q # c)
         /\ out_ring' = ring_after
         /\ pushed' = pushed \o SubSeq(ring_after, Len(out_ring) + 1,
                                       Len(ring_after))
  /\ UNCHANGED <<out_rate, out_channels, out_pc, out_data, out_pos,
                 next_sample, last_played>>
  /\ UNCHANGED <<wr_chunk, chunks_made, sent_order>>
  /\ UNCHANGED notPlaybackWriters

NextWriters ==
  \/ WriteCopy
  \/ WriteSend
  \/ PlaybackRecv
  \/ OutputCallbackBegin
  \/ OutputCallbackPop
  \/ OutputCallbackReturn

\* ------------------------------------------------------------------------
\* Signaling client: the writer task, frame by frame
\* ------------------------------------------------------------------------

Kick(id) == <<"kick", id>>

\* Stands for a value on which serde_json::to_string returns Err.
NotSerializable == <<"unserializable">>

\* Messages the engine sends to the followed writer task.
ForwardMessages == {Leave("r1", "me"), Kick("p1"), NotSerializable}

\* `serde_json::to_string(&msg)` as a Result.
Serialize(msg) == IF msg = NotSerializable THEN Err ELSE Ok(to_string(msg))

\* The text of the RTT ping.
TextPing == "ping"

\* Message::Ping(vec![]).
WsPing == [kind |-> "ping", text |-> "", reply |-> FALSE]

\* The channels, the sink and the task as connect leaves them; `started`
\* is whether connect ran.
ForwardNew(started) ==
  /\ out_queue = <<>>
  /\ out_tx_alive = started
  /\ sink_open = started
  /\ ws_frames = <<>>
  /\ ping_stamp = <<>>
  /\ fwd_pc = IF started THEN "running" ELSE "not_started"
  /\ fwd_frame = <<>>
  /\ out_enqueued = <<>>
  /\ timer_ticks = 0

\* outgoing_rx lives in the writer task: it is dropped when the task ends,
\* and a send on outgoing_tx then fails and hands the message back.
OutgoingRxHeld == fwd_pc \in {"running", "stamping", "sending"}

\* The engine sends a message on outgoing_tx; in a run it sends each of
\* ForwardMessages at most once.
EnqueueOutgoing ==
  /\ out_tx_alive
  /\ OutgoingRxHeld
  /\ Len(out_enqueued) < MaxEnqueued
  /\ \E msg \in ForwardMessages :
       /\ \A j \in DOMAIN out_enqueued : out_enqueued[j] # msg
       /\ out_queue' = Append(out_queue, msg)
       /\ out_enqueued' = Append(out_enqueued, msg)
  /\ UNCHANGED <<out_tx_alive, sink_open, ws_frames, ping_stamp, fwd_pc,
                 fwd_frame, timer_ticks>>
  /\ UNCHANGED notForward

\* The engine drops outgoing_tx.
DropOutgoingTx ==
  /\ out_tx_alive
  /\ out_tx_alive' = FALSE
  /\ UNCHANGED <<out_queue, sink_open, ws_frames, ping_stamp, fwd_pc,
                 fwd_frame, out_enqueued, timer_ticks>>
  /\ UNCHANGED notForward

\* The connection closes: every send on ws_tx that has not completed fails.
SinkClose ==
  /\ sink_open
  /\ sink_open' = FALSE
  /\ UNCHANGED <<out_queue, out_tx_alive, ws_frames, ping_stamp, fwd_pc,
                 fwd_frame, out_enqueued, timer_ticks>>
  /\ UNCHANGED notForward

\* `ws_tx.send(frame).await`: the frames accepted so far.
SinkSend(f) == IF sink_open THEN Append(ws_frames, f) ELSE ws_frames

\* `.is_err()` on the send breaks the loop.
AfterSinkSend == IF sink_open THEN "running" ELSE "send_failed"

\* Mutant of AfterSerializeError: a message that fails to serialize ends
\* the task.
AfterSerializeErrorBreak == "serialize_failed"

\* The Err arm of to_string logs and continues.
AfterSerializeError == "running"

\* select! branch outgoing_rx.recv_async(): the oldest message is taken and
\* serialized, and the task goes to send it as one text frame;
\* Err(Disconnected), when the queue is empty and no sender is left, breaks.
ForwardOutgoing ==
  /\ fwd_pc = "running"
  /\ IF out_queue # <<>>
       THEN /\ out_queue' = Tail(out_queue)
            /\ IF Serialize(Head(out_queue)).ok
                 THEN /\ fwd_frame' =
                           <<Text(Serialize(Head(out_queue)).value)>>
                      /\ fwd_pc' = "sending"
                 ELSE /\ fwd_pc' = AfterSerializeError
                      /\ UNCHANGED fwd_frame
       ELSE /\ ~out_tx_alive
            /\ fwd_pc' = "senders_dropped"
            /\ UNCHANGED <<out_queue, fwd_frame>>
  /\ UNCHANGED <<out_tx_alive, sink_open, ws_frames, ping_stamp, out_enqueued,
                 timer_ticks>>
  /\ UNCHANGED notForward

\* select! branch ping_interval.tick(): the task goes to send a websocket
\* Ping.
ForwardKeepalive ==
  /\ fwd_pc = "running"
  /\ timer_ticks < MaxTicks
  /\ timer_ticks' = timer_ticks + 1
  /\ fwd_frame' = <<WsPing>>
  /\ fwd_pc' = "sending"
  /\ UNCHANGED <<out_queue, out_tx_alive, sink_open, ws_frames, ping_stamp,
                 out_enqueued>>
  /\ UNCHANGED notForward

\* select! branch rtt_interval.tick(): the tick is taken and the task goes
\* to lock ping_sent_at; until it has the lock it stores nothing and serves
\* no other branch.
ForwardRttPing ==
  /\ fwd_pc = "running"
  /\ timer_ticks < MaxTicks
  /\ timer_ticks' = timer_ticks + 1
  /\ fwd_pc' = "stamping"
  /\ UNCHANGED <<out_queue, out_tx_alive, sink_open, ws_frames, ping_stamp,
                 fwd_frame, out_enqueued>>
  /\ UNCHANGED notForward

\* The lock is granted: the send time is stored, the guard dropped, and the
\* task goes to send the text "ping".
ForwardStamp ==
  /\ fwd_pc = "stamping"
  /\ ping_stamp' = StampPing(ping_stamp)
  /\ fwd_frame' = <<Text(TextPing)>>
  /\ fwd_pc' = "sending"
  /\ UNCHANGED <<out_queue, out_tx_alive, sink_open, ws_frames, out_enqueued,
                 timer_ticks>>
  /\ UNCHANGED notForward

\* `ws_tx.send(frame).await` completes: the socket took the frame, or the
\* connection is closed and the send fails. Until then the task serves no
\* other branch.
ForwardSend ==
  /\ fwd_pc = "sending"
  /\ ws_frames' = SinkSend(fwd_frame[1])
  /\ fwd_pc' = AfterSinkSend
  /\ fwd_frame' = <<>>
  /\ UNCHANGED <<out_queue, out_tx_alive, sink_open, ping_stamp, out_enqueued,
                 timer_ticks>>
  /\ UNCHANGED notForward

NextForward ==
  \/ EnqueueOutgoing
  \/ DropOutgoingTx
  \/ SinkClose
  \/ ForwardOutgoing
  \/ ForwardKeepalive
  \/ ForwardRttPing
  \/ ForwardStamp
  \/ ForwardSend

\* ------------------------------------------------------------------------
\* AudioPlayback: the handle, and the playback thread from spawn to its end
\* ------------------------------------------------------------------------

\* AudioPlayback::new: the channel is made and the thread spawned; only a
\* failing spawn returns Err (`?`), the device is opened by the thread.
\* `started` is whether new was called.
HandleNew(started, spawn_ok) ==
  /\ pb_thread = IF started /\ spawn_ok THEN "setup" ELSE "unspawned"
  /\ pb_new_result = IF ~started THEN "none"
                     ELSE IF spawn_ok THEN "ok" ELSE "err"
  /\ pb_chan = <<>>
  /\ pb_received = <<>>
  /\ pb_discarded = <<>>
  /\ pb_writes = <<>>

\* run_playback up to the loop: every failing step (no output device,
\* default_output_config, build_output_stream, play) returns Err with `?`.
PlaybackAfterSetup(setup_ok) == IF setup_ok THEN "loop" ELSE "ended"

\* The receiver lives in run_playback: it is dropped when the function
\* returns.
ReceiverAlive == pb_thread \in {"setup", "loop"}

\* The thread runs run_playback up to its loop; when it returns early the
\* receiver is dropped and the chunks queued so far with it.
PlaybackSetup ==
  /\ pb_thread = "setup"
  /\ \E setup_ok \in BOOLEAN :
       /\ pb_thread' = PlaybackAfterSetup(setup_ok)
       /\ pb_chan' = IF setup_ok THEN pb_chan ELSE <<>>
  /\ UNCHANGED <<pb_new_result, pb_received, pb_discarded, pb_writes>>
  /\ UNCHANGED notHandle

\* flume::Sender::send on the unbounded channel: Ok while a receiver is
\* alive, Err(SendError(chunk)) once it is dropped.
SendOk(alive) == alive

\* Mutant of WriteReturn: the result of the send is handed to the caller.
WriteReturnSendResult(sent) == IF sent THEN "unit" ELSE "send_error"

\* write: `let _ = self.tx.send(..);`, the result is dropped and the
\* function returns ().
WriteReturn(sent) == "unit"

\* AudioPlayback::write(samples) on the handle new returned: the copy, the
\* send and the return.
HandleWrite ==
  /\ pb_new_result = "ok"
  /\ Len(pb_writes) < MaxWrites
  /\ \E len \in 1..MaxPush :
       LET c == Chunk(Len(pb_writes) + 1, len)
           sent == SendOk(ReceiverAlive)
       IN  /\ pb_chan' = IF sent THEN Append(pb_chan, c) ELSE pb_chan
           /\ pb_discarded' = IF sent THEN pb_discarded
                                      ELSE Append(pb_discarded, c)
           /\ pb_writes' = Append(pb_writes,
                                  [chunk |-> c,
                                   result |-> WriteReturn(sent),
                                   thread_ended |-> (pb_thread = "ended")])
  /\ UNCHANGED <<pb_thread, pb_new_result, pb_received>>
  /\ UNCHANGED notHandle

\* One iteration of `while let Ok(samples) = rx.recv()`.
PlaybackLoopRecv ==
  /\ pb_thread = "loop"
  /\ pb_chan # <<>>
  /\ pb_received' = Append(pb_received, Recv(pb_chan))
  /\ pb_chan' = Tail(pb_chan)
  /\ UNCHANGED <<pb_thread, pb_new_result, pb_discarded, pb_writes>>
  /\ UNCHANGED notHandle

NextHandle ==
  \/ PlaybackSetup
  \/ HandleWrite
  \/ PlaybackLoopRecv

vars == <<peerVars, captureVars, signalVars, playbackVars, decodeVars, iceVars, framesVars, negotiateVars, micVars, sendersVars, tracksVars, stateVars, writersVars, forwardVars, handleVars>>

\* ------------------------------------------------------------------------
\* Specifications: one component runs, the others are not instantiated
\* ------------------------------------------------------------------------

InitPeer ==
  /\ \E n \in PriorCalls, ssrc \in SsrcChoices : PeerConnNew(n, ssrc)
  /\ AudioCaptureNew(0, 0)
  /\ Connect(FALSE)
  /\ PlaybackNew(0, 0)
  /\ DecodeNew(FALSE)
  /\ IceNew("", FALSE)
  /\ FramesNew(FALSE, 0, {})
  /\ NegotiationNew(<<>>, <<>>, {})
  /\ MicTestNew(0, 0, FALSE)
  /\ SendersNew({})
  /\ TracksNew(<<>>)
  /\ StateNew("new")
  /\ WritersNew({})
  /\ ForwardNew(FALSE)
  /\ HandleNew(FALSE, FALSE)

InitCapture ==
  /\ PeerConnNew(0, U32(0, 0))
  /\ \E rate \in DeviceRates, channels \in 1..MaxChannels :
       AudioCaptureNew(rate, channels)
  /\ Connect(FALSE)
  /\ PlaybackNew(0, 0)
  /\ DecodeNew(FALSE)
  /\ IceNew("", FALSE)
  /\ FramesNew(FALSE, 0, {})
  /\ NegotiationNew(<<>>, <<>>, {})
  /\ MicTestNew(0, 0, FALSE)
  /\ SendersNew({})
  /\ TracksNew(<<>>)
  /\ StateNew("new")
  /\ WritersNew({})
  /\ ForwardNew(FALSE)
  /\ HandleNew(FALSE, FALSE)

InitSignal ==
  /\ PeerConnNew(0, U32(0, 0))
  /\ AudioCaptureNew(0, 0)
  /\ Connect(TRUE)
  /\ PlaybackNew(0, 0)
  /\ DecodeNew(FALSE)
  /\ IceNew("", FALSE)
  /\ FramesNew(FALSE, 0, {})
  /\ NegotiationNew(<<>>, <<>>, {})
  /\ MicTestNew(0, 0, FALSE)
  /\ SendersNew({})
  /\ TracksNew(<<>>)
  /\ StateNew("new")
  /\ WritersNew({})
  /\ ForwardNew(FALSE)
  /\ HandleNew(FALSE, FALSE)

InitPlayback ==
  /\ PeerConnNew(0, U32(0, 0))
  /\ AudioCaptureNew(0, 0)
  /\ Connect(FALSE)
  /\ \E rate \in OutRates, channels \in 1..MaxChannels :
       PlaybackNew(rate, channels)
  /\ DecodeNew(FALSE)
  /\ IceNew("", FALSE)
  /\ FramesNew(FALSE, 0, {})
  /\ NegotiationNew(<<>>, <<>>, {})
  /\ MicTestNew(0, 0, FALSE)
  /\ SendersNew({})
  /\ TracksNew(<<>>)
  /\ StateNew("new")
  /\ WritersNew({})
  /\ ForwardNew(FALSE)
  /\ HandleNew(FALSE, FALSE)

InitDecode ==
  /\ PeerConnNew(0, U32(0, 0))
  /\ AudioCaptureNew(0, 0)
  /\ Connect(FALSE)
  /\ PlaybackNew(0, 0)
  /\ DecodeNew(TRUE)
  /\ IceNew("", FALSE)
  /\ FramesNew(FALSE, 0, {})
  /\ NegotiationNew(<<>>, <<>>, {})
  /\ MicTestNew(0, 0, FALSE)
  /\ SendersNew({})
  /\ TracksNew(<<>>)
  /\ StateNew("new")
  /\ WritersNew({})
  /\ ForwardNew(FALSE)
  /\ HandleNew(FALSE, FALSE)

InitIce ==
  /\ PeerConnNew(0, U32(0, 0))
  /\ AudioCaptureNew(0, 0)
  /\ Connect(FALSE)
  /\ PlaybackNew(0, 0)
  /\ DecodeNew(FALSE)
  /\ \E id \in PeerIds : IceNew(id, TRUE)
  /\ FramesNew(FALSE, 0, {})
  /\ NegotiationNew(<<>>, <<>>, {})
  /\ MicTestNew(0, 0, FALSE)
  /\ SendersNew({})
  /\ TracksNew(<<>>)
  /\ StateNew("new")
  /\ WritersNew({})
  /\ ForwardNew(FALSE)
  /\ HandleNew(FALSE, FALSE)

InitFrames ==
  /\ PeerConnNew(0, U32(0, 0))
  /\ \E rate \in FrameRates, channels \in 1..MaxChannels :
       AudioCaptureNew(rate, channels)
  /\ Connect(FALSE)
  /\ PlaybackNew(0, 0)
  /\ DecodeNew(FALSE)
  /\ IceNew("", FALSE)
  /\ \E ns \in BOOLEAN : FramesNew(ns, FRAME_SIZE, BurstMillis)
  /\ NegotiationNew(<<>>, <<>>, {})
  /\ MicTestNew(0, 0, FALSE)
  /\ SendersNew({})
  /\ TracksNew(<<>>)
  /\ StateNew("new")
  /\ WritersNew({})
  /\ ForwardNew(FALSE)
  /\ HandleNew(FALSE, FALSE)

InitNegotiate ==
  /\ PeerConnNew(0, U32(0, 0))
  /\ AudioCaptureNew(0, 0)
  /\ Connect(FALSE)
  /\ PlaybackNew(0, 0)
  /\ DecodeNew(FALSE)
  /\ IceNew("", FALSE)
  /\ FramesNew(FALSE, 0, {})
  /\ NegotiationNew(<<>>, <<>>, NegTasks)
  /\ MicTestNew(0, 0, FALSE)
  /\ SendersNew({})
  /\ TracksNew(<<>>)
  /\ StateNew("new")
  /\ WritersNew({})
  /\ ForwardNew(FALSE)
  /\ HandleNew(FALSE, FALSE)

InitMicTest ==
  /\ PeerConnNew(0, U32(0, 0))
  /\ AudioCaptureNew(0, 0)
  /\ Connect(FALSE)
  /\ PlaybackNew(0, 0)
  /\ DecodeNew(FALSE)
  /\ IceNew("", FALSE)
  /\ FramesNew(FALSE, 0, {})
  /\ NegotiationNew(<<>>, <<>>, {})
  /\ \E rate \in FrameRates, channels \in 1..MaxChannels :
       MicTestNew(rate, channels, TRUE)
  /\ SendersNew({})
  /\ TracksNew(<<>>)
  /\ StateNew("new")
  /\ WritersNew({})
  /\ ForwardNew(FALSE)
  /\ HandleNew(FALSE, FALSE)

InitSenders ==
  /\ \E n \in SenderStarts, ssrc \in SsrcChoices : PeerConnNew(n, ssrc)
  /\ AudioCaptureNew(0, 0)
  /\ Connect(FALSE)
  /\ PlaybackNew(0, 0)
  /\ DecodeNew(FALSE)
  /\ IceNew("", FALSE)
  /\ FramesNew(FALSE, 0, {})
  /\ NegotiationNew(<<>>, <<>>, {})
  /\ MicTestNew(0, 0, FALSE)
  /\ SendersNew(Senders)
  /\ TracksNew(<<>>)
  /\ StateNew("new")
  /\ WritersNew({})
  /\ ForwardNew(FALSE)
  /\ HandleNew(FALSE, FALSE)

InitTracks ==
  /\ PeerConnNew(0, U32(0, 0))
  /\ AudioCaptureNew(0, 0)
  /\ Connect(FALSE)
  /\ PlaybackNew(0, 0)
  /\ DecodeNew(TRUE)
  /\ IceNew("", FALSE)
  /\ FramesNew(FALSE, 0, {})
  /\ NegotiationNew(<<>>, <<>>, {})
  /\ MicTestNew(0, 0, FALSE)
  /\ SendersNew({})
  /\ TracksNew(<<>>)
  /\ StateNew("new")
  /\ WritersNew({})
  /\ ForwardNew(FALSE)
  /\ HandleNew(FALSE, FALSE)

InitStateChange ==
  /\ \E ssrc \in SsrcChoices : PeerConnNew(0, ssrc)
  /\ AudioCaptureNew(0, 0)
  /\ Connect(FALSE)
  /\ PlaybackNew(0, 0)
  /\ DecodeNew(TRUE)
  /\ IceNew("", FALSE)
  /\ FramesNew(FALSE, 0, {})
  /\ NegotiationNew(<<>>, <<>>, {})
  /\ MicTestNew(0, 0, FALSE)
  /\ SendersNew({})
  /\ TracksNew(<<>>)
  /\ StateNew("new")
  /\ WritersNew({})
  /\ ForwardNew(FALSE)
  /\ HandleNew(FALSE, FALSE)

InitWriters ==
  /\ PeerConnNew(0, U32(0, 0))
  /\ AudioCaptureNew(0, 0)
  /\ Connect(FALSE)
  /\ \E rate \in OutRates, channels \in 1..MaxChannels :
       PlaybackNew(rate, channels)
  /\ DecodeNew(FALSE)
  /\ IceNew("", FALSE)
  /\ FramesNew(FALSE, 0, {})
  /\ NegotiationNew(<<>>, <<>>, {})
  /\ MicTestNew(0, 0, FALSE)
  /\ SendersNew({})
  /\ TracksNew(<<>>)
  /\ StateNew("new")
  /\ WritersNew(Writers)
  /\ ForwardNew(FALSE)
  /\ HandleNew(FALSE, FALSE)

\* A capture without noise suppression on a 48 kHz device of MaxChannels
\* channels whose callbacks hand over more than the ring holds.
InitRing ==
  /\ PeerConnNew(0, U32(0, 0))
  /\ AudioCaptureNew(SAMPLE_RATE, MaxChannels)
  /\ Connect(FALSE)
  /\ PlaybackNew(0, 0)
  /\ DecodeNew(FALSE)
  /\ IceNew("", FALSE)
  /\ FramesNew(FALSE, FRAME_SIZE, StallMillis)
  /\ NegotiationNew(<<>>, <<>>, {})
  /\ MicTestNew(0, 0, FALSE)
  /\ SendersNew({})
  /\ TracksNew(<<>>)
  /\ StateNew("new")
  /\ WritersNew({})
  /\ ForwardNew(FALSE)
  /\ HandleNew(FALSE, FALSE)

InitForward ==
  /\ PeerConnNew(0, U32(0, 0))
  /\ AudioCaptureNew(0, 0)
  /\ Connect(FALSE)
  /\ PlaybackNew(0, 0)
  /\ DecodeNew(FALSE)
  /\ IceNew("", FALSE)
  /\ FramesNew(FALSE, 0, {})
  /\ NegotiationNew(<<>>, <<>>, {})
  /\ MicTestNew(0, 0, FALSE)
  /\ SendersNew({})
  /\ TracksNew(<<>>)
  /\ StateNew("new")
  /\ WritersNew({})
  /\ ForwardNew(TRUE)
  /\ HandleNew(FALSE, FALSE)

InitHandle ==
  /\ PeerConnNew(0, U32(0, 0))
  /\ AudioCaptureNew(0, 0)
  /\ Connect(FALSE)
  /\ PlaybackNew(0, 0)
  /\ DecodeNew(FALSE)
  /\ IceNew("", FALSE)
  /\ FramesNew(FALSE, 0, {})
  /\ NegotiationNew(<<>>, <<>>, {})
  /\ MicTestNew(0, 0, FALSE)
  /\ SendersNew({})
  /\ TracksNew(<<>>)
  /\ StateNew("new")
  /\ WritersNew({})
  /\ ForwardNew(FALSE)
  /\ \E spawn_ok \in BOOLEAN : HandleNew(TRUE, spawn_ok)

SpecPeer == InitPeer /\ [][NextPeer]_vars

SpecCapture == InitCapture /\ [][NextCapture]_vars

SpecSignal == InitSignal /\ [][NextSignal]_vars

SpecPlayback == InitPlayback /\ [][NextPlayback]_vars

SpecDecode == InitDecode /\ [][NextDecode]_vars

SpecIce == InitIce /\ [][NextIce]_vars

SpecFrames == InitFrames /\ [][NextFrames]_vars

SpecNegotiate == InitNegotiate /\ [][NextNegotiate]_vars

SpecMicTest == InitMicTest /\ [][NextMicTest]_vars

SpecSenders == InitSenders /\ [][NextSenders]_vars

SpecTracks == InitTracks /\ [][NextTracks]_vars

SpecStateChange == InitStateChange /\ [][NextStateChange]_vars

SpecWriters == InitWriters /\ [][NextWriters]_vars

SpecRing == InitRing /\ [][NextFrames]_vars

SpecForward == InitForward /\ [][NextForward]_vars

SpecVad == InitCapture /\ [][NextVad]_vars

SpecHandle == InitHandle /\ [][NextHandle]_vars

\* Both tasks are scheduled by the runtime, time passes, a send returns and
\* the mutex is granted: each of their steps is eventually taken once it
\* stays possible.
FairSpecSignal ==
  /\ SpecSignal
  /\ WF_vars(Tick)
  /\ WF_vars(WriterForward)
  /\ WF_vars(WriterRttPing)
  /\ WF_vars(WriterStamp)
  /\ WF_vars(WriterSend)
  /\ WF_vars(ReaderRead)
  /\ WF_vars(ReaderTake)
  /\ WF_vars(ReaderStreamEnd)

\* The processing loop is a running thread and the callback returns: each of
\* their steps is eventually taken once it stays possible.
FairSpecCapture ==
  /\ SpecCapture
  /\ WF_vars(Setup)
  /\ WF_vars(EncoderNew)
  /\ WF_vars(Poll)
  /\ WF_vars(Sleep)
  /\ WF_vars(Encode)
  /\ WF_vars(InputCallbackPush)

\* The mic-test thread runs and its sleep returns: each of its steps is
\* eventually taken once it stays possible.
FairSpecMicTest ==
  /\ SpecMicTest
  /\ WF_vars(MicSetup)
  /\ WF_vars(MicOutputSetup)
  /\ WF_vars(MicPoll)
  /\ WF_vars(MicSleep)
  /\ WF_vars(MicProcess)

\* select! polls outgoing_rx.recv_async() on every turn of the loop: a
\* queued message is taken unless the task ends first. A send on the
\* websocket completes: the socket takes the frame or the connection breaks.
\* The mutex is granted: nothing holds it across an await.
FairSpecForward ==
  /\ SpecForward
  /\ WF_vars(ForwardOutgoing)
  /\ WF_vars(ForwardStamp)
  /\ WF_vars(ForwardSend)

\* ------------------------------------------------------------------------
\* Claims about PeerConn::send_audio
\* ------------------------------------------------------------------------

\* C1: the k-th sequential send_audio call (k = 0, 1, ...) builds a packet
\* whose sequence number is k mod 65536; after 65535 comes 0.
C1_SequenceNumberIsCallIndex ==
  track # <<>> => track[1].header.sequence_number = (calls - 1) % 65536

\* C1 witness: the call after sequence number 65535 was made on a PeerConn
\* that started from construction, and its packet carries 0.
C1_Witness ==
  /\ calls = 65537
  /\ track # <<>>
  /\ track[1].header.sequence_number = 0

\* C2: the k-th sequential send_audio call builds a packet whose timestamp
\* is (960 * k) mod 2^32.
C2_TimestampIsCallIndex ==
  track # <<>> => track[1].header.timestamp = TimestampAfter(calls - 1)

\* C2 witness: call number 4473925 (960 * 4473925 = 2^32 + 704) was made and
\* its packet carries the wrapped timestamp 704.
C2_Witness ==
  /\ calls = 4473926
  /\ track # <<>>
  /\ track[1].header.timestamp = U32(0, 704)

\* C3: every packet built by send_audio carries the SSRC chosen at
\* construction, version 2, payload type 111 and no marker bit, and no
\* operation (send_audio, close) changes the SSRC.
C3_SsrcFixed ==
  [][/\ rtp_ssrc' = rtp_ssrc
     /\ track' # <<>> =>
          /\ track'[1].header.ssrc = rtp_ssrc
          /\ track'[1].header.version = 2
          /\ track'[1].header.payload_type = 111
          /\ track'[1].header.marker = FALSE]_vars

\* C3 witness: packets were built before and after close().
C3_Witness ==
  /\ closed
  /\ calls >= 2
  /\ track # <<>>
  /\ track[1].header.ssrc = rtp_ssrc

\* ------------------------------------------------------------------------
\* Claims about muting the capture
\* ------------------------------------------------------------------------

\* C4 as stated: while the capture is muted, no EncodedFrame is sent on the
\* encoded-frame channel.
C4_NoFrameWhileMuted ==
  [][muted => encoded_sent' = encoded_sent]_vars

\* C4 as amended: while muted, the audio awaiting encoding (Pending) never
\* grows, and every frame sent while muted uses up one device frame of it;
\* so only audio the callback accepted before it saw the mute is sent.
C4_MutedFramesUsePendingAudio ==
  [][muted =>
       /\ Pending' <= Pending
       /\ encoded_sent' # encoded_sent => Pending' = Pending - device_frame_samples]_vars

\* C4 witness: during one mute a frame was sent, the callback discarded
\* input, and the audio accepted before the mute is used up.
C4_Witness ==
  /\ muted
  /\ muted_sent
  /\ muted_discards
  /\ Pending = 0
  /\ loop_pc = "poll"

\* Since the last unmute the callback has handed one 20 ms device frame of
\* samples to the ring.
FrameDeliveredSinceUnmute ==
  /\ device_frame_samples > 0
  /\ unmuted_pushed >= device_frame_samples

\* A frame was sent since the last unmute, or the claim's provisos failed
\* (an encode failed, the consumer is gone, the thread never reached its
\* loop because the encoder could not be made), or the capture was unmuted
\* anew.
ResumedSinceUnmute ==
  \/ unmuted_sent
  \/ unmuted_failed
  \/ ~encoded_rx_alive
  \/ loop_pc \in {"exited", "failed"}
  \/ ~FrameDeliveredSinceUnmute

\* C5: once the callback has delivered one 20 ms device frame of samples
\* after the unmute, the processing loop sends a frame, provided the encode
\* succeeds and the consumer is alive.
C5_ResumesAfterUnmute == FrameDeliveredSinceUnmute ~> ResumedSinceUnmute

\* C5 witness: after a mute during which input was discarded, the capture
\* was unmuted, the callback delivered one device frame, and a frame was sent.
C5_Witness ==
  /\ ~muted
  /\ muted_discards
  /\ unmuted_pushed = device_frame_samples
  /\ unmuted_sent
  /\ ~unmuted_failed
  /\ encoded_rx_alive

\* ------------------------------------------------------------------------
\* Claims about the signaling client
\* ------------------------------------------------------------------------

\* The step is the reader task taking the text frame `t` off the stream.
ReadsText(t) ==
  /\ reader_state = "running"
  /\ ws_rx # <<>>
  /\ Head(ws_rx).kind = "text"
  /\ Head(ws_rx).text = t
  /\ ws_rx' = Tail(ws_rx)

\* The step is the reader task, a "pong" in hand, going through the RTT
\* path under the lock.
PongTake ==
  /\ reader_state = "locking"
  /\ reader_state' # "locking"

\* The step is the reader task taking a text frame other than "pong".
ReadsOtherText ==
  /\ reader_state = "running"
  /\ ws_rx # <<>>
  /\ Head(ws_rx).kind = "text"
  /\ Head(ws_rx).text # TextPong
  /\ ws_rx' = Tail(ws_rx)

\* C6: a step in which the reader task takes a text frame that is exactly
\* "pong" hands nothing to from_str, leaves the incoming channel as it was
\* and sends the task to the RTT path; the RTT path hands nothing to
\* from_str either, leaves the incoming channel as it was and returns the
\* task to its loop for the next frame; and the incoming channel grows only
\* in a step that takes a text frame other than "pong".
C6_PongIsNotASignalMessage ==
  [][/\ ReadsText(TextPong) =>
          /\ ~pong_parsed'
          /\ incoming' = incoming
          /\ reader_state' = "locking"
     /\ PongTake =>
          /\ ~pong_parsed'
          /\ incoming' = incoming
          /\ ws_rx' = ws_rx
          /\ reader_state' = "running"
     /\ Len(incoming') > Len(incoming) => ReadsOtherText]_vars

\* C6 witness: the reader task has read the "pong" of a ping, the RTT path
\* produced a sample, nothing is on the incoming channel, no "pong" was
\* deserialized, and the reader task runs on.
C6_Witness ==
  /\ followed_ping # <<>>
  /\ followed_ping[1].state = "read"
  /\ followed_ping[1].sample # <<>>
  /\ rtt_rx # <<>>
  /\ incoming = <<>>
  /\ incoming_rx_alive
  /\ ~pong_parsed
  /\ reader_state = "running"

\* The reader task handled the pong of the followed ping to the end, and it
\* gave an RTT sample.
PongSampled ==
  /\ followed_ping # <<>>
  /\ followed_ping[1].state = "read"
  /\ followed_ping[1].sample # <<>>

\* C7 as claimed: the sample a ping's pong gives equals the delay D between
\* the send of that ping and the read of its pong, whatever D is.
C7_SampleEqualsDelay ==
  PongSampled =>
    followed_ping[1].sample[1] = as_millis(followed_ping[1].delay)

\* C7: the sample a ping's pong gives equals the time elapsed since the
\* writer task last stored a send time, that is since the latest "ping" it
\* sent or went to send; when the writer task stored no other send time
\* before the reader task took the lock for the pong, that is the time
\* since the send time of the pong's own ping, and it equals the delay D of
\* that ping when its send did not wait for the socket.
C7_SampleIsTimeSinceLatestPing ==
  PongSampled =>
    /\ followed_ping[1].sample[1] = as_millis(followed_ping[1].latest)
    /\ ~followed_ping[1].superseded =>
         followed_ping[1].sample[1] = as_millis(followed_ping[1].age)
    /\ (~followed_ping[1].superseded /\ ~followed_ping[1].waited) =>
         followed_ping[1].sample[1] = as_millis(followed_ping[1].delay)

\* C7 witness: a pong handled RTT_PING_INTERVAL seconds or more after its
\* ping, after the writer task stored the send time of another ping, gave a
\* smaller sample.
C7_Witness ==
  /\ PongSampled
  /\ followed_ping[1].superseded
  /\ followed_ping[1].delay >= RTT_PING_INTERVAL
  /\ followed_ping[1].sample[1] = as_millis(followed_ping[1].latest)
  /\ followed_ping[1].sample[1] < as_millis(followed_ping[1].delay)

\* The step is the reader task taking a text frame that is not "pong" and
\* does not deserialize to a SignalMessage.
ReadsMalformed ==
  \E t \in InTexts : t # TextPong /\ ~from_str(t).ok /\ ReadsText(t)

\* The step is the reader task taking a text frame that deserializes to a
\* SignalMessage, after a malformed one, while the engine holds incoming_rx.
ReadsValidAfterMalformed(t) ==
  /\ malformed_seen # "no"
  /\ incoming_rx_alive
  /\ from_str(t).ok
  /\ ReadsText(t)

\* C8: a step in which the reader task takes a malformed text frame puts
\* nothing on the incoming channel and leaves the reader task running; a
\* valid message read after it is put on the incoming channel.
C8_MalformedTextIsDropped ==
  [][/\ ReadsMalformed =>
          /\ incoming' = incoming
          /\ reader_state' = "running"
     /\ \A t \in InTexts :
          ReadsValidAfterMalformed(t) =>
            /\ incoming' = Append(incoming, from_str(t).value)
            /\ reader_state' = "running"]_vars

\* C8 witness: after a malformed text was dropped, a valid message was
\* forwarded: it is the newest item on the incoming channel.
C8_Witness ==
  /\ malformed_seen = "forwarded"
  /\ reader_state = "running"
  /\ incoming # <<>>
  /\ incoming[Len(incoming)] = PeerJoined("p1", "")

\* One of the tasks ended the way C9 names: the writer on a failed send, the
\* reader on a closed or failing stream.
TaskEnded ==
  \/ writer_state = "send_failed"
  \/ reader_state \in {"stream_closed", "stream_error"}

\* Both tasks have ended: outgoing_rx and incoming_tx are dropped, so a send
\* on outgoing_tx fails and incoming_rx reports disconnected once drained.
SessionEnded ==
  /\ ~WriterAlive
  /\ ~ReaderAlive

\* C9 as claimed: once either task has ended, the other task stops too and
\* both channels are closed.
C9_TaskEndEndsSession == TaskEnded ~> SessionEnded

\* ------------------------------------------------------------------------
\* Claims about the playback output callback
\* ------------------------------------------------------------------------

\* The part of the buffer the running or finished callback has written.
Written == SubSeq(out_data, 1, out_pos)

\* C10 as claimed: in a buffer the callback writes, once a sample is 0.0
\* (the ring was empty) every later sample is 0.0.
C10_SilenceToBufferEnd ==
  \A i, j \in 1..out_pos :
    (i < j /\ out_data[i] = SILENCE) => out_data[j] = SILENCE

\* C10: the callback writes every sample of its buffer and returns; each
\* sample it writes is the oldest sample in the ring at that moment, which
\* then leaves the ring, or 0.0 if the ring is empty at that moment; a ring
\* sample is newer than every sample played before it.
C10_EachSampleIsNextOrSilence ==
  [][/\ out_pos' = out_pos + 1 =>
          /\ out_ring # <<>> =>
               /\ out_data'[out_pos'] = Head(out_ring)
               /\ out_ring' = Tail(out_ring)
               /\ out_data'[out_pos'] > last_played
          /\ out_ring = <<>> =>
               /\ out_data'[out_pos'] = SILENCE
               /\ out_ring' = out_ring
          /\ SubSeq(out_data', 1, out_pos) = Written
     /\ (out_pc = "filling" /\ out_pc' = "idle") =>
          /\ out_data' = out_data
          /\ \A i \in 1..Len(out_data) : out_data[i] # STALE]_vars

\* C10 witness: a returned buffer holds a played sample, then silence from
\* an underrun, then a sample pushed while the callback ran.
C10_Witness ==
  /\ out_pc = "idle"
  /\ Len(out_data) = 3
  /\ out_data[1] # SILENCE
  /\ out_data[2] = SILENCE
  /\ out_data[3] > out_data[1]

\* ------------------------------------------------------------------------
\* Claims about the decode loop
\* ------------------------------------------------------------------------

\* The step is the decode loop reading a packet with payload `p`.
ReadsPayload(p) ==
  /\ decode_pc = "running"
  /\ track_rx # <<>>
  /\ Head(track_rx).read_ok
  /\ Head(track_rx).payload = p
  /\ track_rx' = Tail(track_rx)

\* C11: a step in which the decode loop reads a packet with an empty
\* payload, or one whose Opus decode fails, adds no DecodedFrame and leaves
\* the loop running; a step in which it reads a packet that decodes, while
\* the receiver exists, adds exactly one DecodedFrame, that packet's, behind
\* the frames of the packets read before it.
C11_BadPacketsAreSkipped ==
  [][\A n \in 1..(MaxPackets + 1) :
       /\ (ReadsPayload(EmptyPayload) \/ ReadsPayload(CorruptPayload)) =>
            /\ decoded' = decoded
            /\ decode_pc' = "running"
       /\ (ReadsPayload(OpusPayload(n)) /\ decoded_rx_alive) =>
            /\ decoded' = Append(decoded, DecodedFrame(n))
            /\ decode_pc' = "running"
            /\ \A i \in 1..Len(decoded) : decoded[i].samples < n]_vars

\* C11 witness: after an empty payload and a decode failure were skipped, a
\* later packet was decoded and its frame is the newest on the channel.
C11_Witness ==
  /\ decode_skipped = {"empty", "decode_error"}
  /\ decode_resumed
  /\ decode_pc = "running"
  /\ decoded # <<>>
  /\ decoded[Len(decoded)].samples = MaxPackets

\* The step is the decode loop failing to read, or failing to send a frame
\* because the receiver is gone.
DecodeLoopFails ==
  /\ decode_pc = "running"
  /\ track_rx # <<>>
  /\ track_rx' = Tail(track_rx)
  /\ \/ ~Head(track_rx).read_ok
     \/ /\ decode_float(Head(track_rx).payload).ok
        /\ ~decoded_rx_alive

\* C12: the step in which a read fails, or a send fails because the receiver
\* is gone, ends the decode loop; once the loop has ended it never runs
\* again, reads no packet and adds no DecodedFrame.
C12_DecodeLoopTerminates ==
  [][/\ DecodeLoopFails => decode_pc' \notin {"running", "no_track"}
     /\ decode_pc \notin {"running", "no_track"} =>
          /\ decode_pc' = decode_pc
          /\ Len(decoded') <= Len(decoded)
          /\ Len(track_rx') >= Len(track_rx)]_vars

\* C12 witness: the loop ended on a failed read with packets it had decoded
\* still on the channel and a later packet left unread.
C12_Witness ==
  /\ decode_pc = "read_failed"
  /\ decoded # <<>>
  /\ decoded_rx_alive
  /\ track_rx # <<>>
  /\ decode_float(Head(track_rx).payload).ok

\* ------------------------------------------------------------------------
\* Claims about the on_ice_candidate callback
\* ------------------------------------------------------------------------

\* The step is the callback running for the oldest pending event.
IceCallbackRuns == ice_pending # <<>> /\ ice_pending' = Tail(ice_pending)

\* C13: a step in which the callback runs for a candidate that serializes
\* makes one send to the sink, of the pair (peer_id, IceCandidate{candidate,
\* sdp_mid, sdp_mline_index}) with the id the PeerConn was constructed with
\* and the candidate's own fields, which the sink holds while its receiver
\* exists; a step in which it runs for the end-of-candidates notification or
\* for a candidate that fails to serialize sends nothing; peer_id never
\* changes.
C13_CandidateForwardedOnce ==
  [][/\ pid' = pid
     /\ IceCallbackRuns =>
          LET ev == Head(ice_pending) IN
          IF ev.some /\ ev.json # None
            THEN /\ ice_forwarded' = ice_forwarded + 1
                 /\ ice_rx_alive =>
                      ice_sink' =
                        Append(ice_sink,
                               <<pid,
                                 [kind |-> "ice_candidate",
                                  candidate |-> ev.json[1].candidate,
                                  sdp_mid |-> ev.json[1].sdp_mid,
                                  sdp_mline_index |->
                                    ev.json[1].sdp_mline_index]>>)
            ELSE /\ ice_forwarded' = ice_forwarded
                 /\ ice_sink' = ice_sink]_vars

\* C13 witness: after the end-of-candidates notification or a candidate that
\* failed to serialize forwarded nothing, the sink holds the pairs of two
\* candidates, in order, tagged with the PeerConn's id.
C13_Witness ==
  /\ next_candidate = MaxCandidates + 1
  /\ ice_pending = <<>>
  /\ ice_forwarded = 2
  /\ Len(ice_sink) = 2
  /\ ice_sink[1][1] = pid
  /\ ice_sink[2][1] = pid
  /\ ice_sink[1][2].candidate < ice_sink[2][2].candidate
  /\ ice_sink[2][2].sdp_mid = Some("0")

\* ------------------------------------------------------------------------
\* Claims about the end of the capture thread
\* ------------------------------------------------------------------------

\* The receiver of the encoded-frame channel is dropped.
ConsumerDropped == ~encoded_rx_alive

\* run_capture has returned, and encoded_tx is dropped with it.
CaptureThreadEnded == loop_pc \in {"exited", "failed"} /\ ~EncodedTxAlive

\* C15 as stated: once the encoded-frame consumer is dropped, the capture
\* processing loop eventually exits, whatever the mute state and the amount
\* of buffered input.
C15_LoopExitsOnceConsumerDropped == ConsumerDropped ~> CaptureThreadEnded

\* A capture device error has happened: the setup failed, or the running
\* input stream reported an error.
DeviceErrorReported == loop_pc = "failed" \/ stream_error

\* C16 as stated: after a capture device error the capture thread
\* terminates and the encoded-frame channel is closed.
C16_DeviceErrorEndsThread == DeviceErrorReported ~> CaptureThreadEnded

\* ------------------------------------------------------------------------
\* Claims about the chunks of the capture processing loop
\* ------------------------------------------------------------------------

\* The step is an encode of a popped chunk, with outcome r.
EncodeReturns(r) ==
  chunk_pc = "popped" /\ chunk_pc' # "popped" /\ last_encode' = r

\* C17: a step in which the Opus encode of a chunk fails sends nothing and
\* leaves the loop polling; a step in which a chunk encodes, before or after
\* a failure, sends exactly one frame.
C17_FailedEncodeIsSkipped ==
  [][/\ EncodeReturns("err") =>
          /\ frames_sent' = frames_sent
          /\ chunk_pc' = "poll"
     /\ EncodeReturns("ok") =>
          /\ frames_sent' = frames_sent + 1
          /\ chunk_pc' = "poll"]_vars

\* C17 witness: the second chunk failed to encode and the chunk after it was
\* sent.
C17_Witness ==
  /\ chunks_popped = 3
  /\ encode_failures = 1
  /\ sent_after_failure
  /\ last_encode = "ok"
  /\ frames_sent = 2
  /\ chunk_pc = "poll"

\* Nothing captured was lost: the ring never overflowed and no encode failed.
NothingLost ==
  /\ ~overflowed
  /\ encode_failures = 0

\* The loop has used up the input: it is polling and starved.
InputUsedUp ==
  /\ chunk_pc = "poll"
  /\ RunsLen(capture_ring) < (device_rate \div 50) * device_channels

\* C18: the loop pops exactly floor(R/50) * C samples per chunk and hands
\* exactly 960 samples to the encoder; if nothing was lost, then once the
\* input is used up the frames sent number floor(N / (floor(R/50) * C)) for
\* the N samples captured; 8,820 samples at 44,100 Hz stereo give 5 frames.
C18_FramesPerCapturedSamples ==
  /\ chunks_popped > 0 =>
       Len(Expand(device_buf)) = (device_rate \div 50) * device_channels
  /\ Len(mono_48k_buf) = 960
  /\ NothingLost =>
       /\ captured = chunks_popped * (device_rate \div 50) * device_channels
                       + RunsLen(capture_ring)
       /\ frames_sent = chunks_popped - (IF chunk_pc = "popped" THEN 1 ELSE 0)
       /\ InputUsedUp =>
            frames_sent = captured \div ((device_rate \div 50) * device_channels)
  /\ (/\ NothingLost
      /\ InputUsedUp
      /\ device_rate = 44100
      /\ device_channels = 2
      /\ captured = 8820) => frames_sent = 5

\* C18 witness: 100 ms captured at 44,100 Hz stereo, all of it processed.
C18_Witness ==
  /\ device_rate = 44100
  /\ device_channels = 2
  /\ captured = 8820
  /\ NothingLost
  /\ InputUsedUp
  /\ frames_sent = 5

\* A chunk has been through steps 1 to 5.
ChunkProcessed == chunks_popped > 0 /\ chunk_pc = "poll"

\* C19: at 48,000 Hz and 1 channel neither the downmix nor the resample
\* branch is taken, and with noise suppression off when the loop loads the
\* flag the 960 samples handed to the encoder are the 960 samples of the
\* chunk popped, in the same order.
C19_IdentityAt48kMono ==
  (device_rate = 48000 /\ device_channels = 1) =>
    /\ ~need_downmix
    /\ ~need_resample
    /\ (ChunkProcessed /\ ~ns_loaded) =>
         /\ Len(Expand(device_buf)) = 960
         /\ mono_48k_buf = Expand(device_buf)

\* C19 witness: at 48,000 Hz mono with noise suppression off, the second
\* chunk (samples 961 to 1920) was handed to the encoder.
C19_Witness ==
  /\ device_rate = 48000
  /\ device_channels = 1
  /\ ~ns_loaded
  /\ ChunkProcessed
  /\ chunks_popped = 2
  /\ mono_48k_buf[1] = 961
  /\ mono_48k_buf[960] = 1920

\* ------------------------------------------------------------------------
\* Claims about SDP and ICE negotiation
\* ------------------------------------------------------------------------

\* The step is the return of operation `op`.
OpReturns(op) == neg_returned' = neg_returned + 1 /\ neg_op' = op

\* The calls made so far by the call in `slot`.
MadeBy(slot) == IF slot = <<>> THEN <<>> ELSE slot[1].made

\* Call `step` is among the calls made.
Called(made, step) == \E n \in 1..Len(made) : made[n].call = step

\* The calls made are the first calls of `steps`, in order, none of them
\* after a failed one.
StopsAtFailure(made, steps) ==
  /\ made # <<>>
  /\ Len(made) <= Len(steps)
  /\ \A n \in 1..Len(made) : made[n].call = steps[n]
  /\ \A n \in 1..(Len(made) - 1) : made[n].ok

\* The calls of each operation.
StepsOf(op) ==
  CASE op = "create_offer" -> CreateOfferSteps
    [] op = "handle_offer" -> HandleOfferSteps
    [] op = "handle_answer" -> HandleAnswerSteps
    [] op = "add_ice_candidate" -> AddIceCandidateSteps

\* C20: an operation makes its calls in the order of the code and none after
\* a failed one, whatever other tasks do between its awaits, and it returns
\* an error exactly when a call failed. For handle_offer: if parsing or
\* applying the remote offer fails, it returns an error with no answer
\* created and without setting a local description; the remote description
\* is set, to the offer given, before the answer is created; the local
\* description is set in the very step that returns the answer, and the SDP
\* returned is that of the local description just set.
C20_FailedStepStopsNegotiation ==
  [][/\ \A op \in {"create_offer", "handle_offer", "handle_answer",
                   "add_ice_candidate"} :
          OpReturns(op) =>
            /\ StopsAtFailure(neg_calls', StepsOf(op))
            /\ neg_result'[1].ok <=>
                 /\ Len(neg_calls') = Len(StepsOf(op))
                 /\ neg_calls'[Len(neg_calls')].ok
     /\ \A t \in DOMAIN neg_pending :
          (neg_pending'[t] # neg_pending[t] /\ neg_pending'[t] # <<>>) =>
            LET made == MadeBy(neg_pending'[t]) IN
            /\ Len(made) = Len(MadeBy(neg_pending[t])) + 1
            /\ StopsAtFailure(made, StepsOf(neg_pending'[t][1].op))
            /\ made[Len(made)].ok
            /\ local_description' = local_description
            /\ (/\ neg_pending'[t][1].op = "handle_offer"
                /\ made[Len(made)].call = "set_remote_description") =>
                 remote_description' =
                   <<Description("offer", neg_pending'[t][1].sdp)>>
            /\ (/\ neg_pending'[t][1].op = "handle_offer"
                /\ Called(made, "create_answer")) =>
                 Called(made, "set_remote_description")
     /\ OpReturns("handle_offer") =>
          /\ (\E n \in 1..2 : n <= Len(neg_calls') /\ ~neg_calls'[n].ok) =>
               /\ ~neg_result'[1].ok
               /\ ~Called(neg_calls', "create_answer")
               /\ ~Called(neg_calls', "set_local_description")
               /\ local_description' = local_description
          /\ neg_result'[1].ok =>
               /\ neg_calls'[2].call = "set_remote_description"
               /\ neg_calls'[3].call = "create_answer"
               /\ neg_calls'[4].call = "set_local_description"
               /\ local_description' # <<>>
               /\ local_description'[1].sdp_type = "answer"
               /\ neg_result'[1].value = local_description'[1].sdp]_vars

\* C20 witness: after an answer was returned for one offer, a handle_offer
\* failed in applying another offer: the local description is still the
\* earlier answer and no answer was created.
C20_Witness ==
  /\ neg_op = "handle_offer"
  /\ ~neg_result[1].ok
  /\ Len(neg_calls) = 2
  /\ neg_calls[2].call = "set_remote_description"
  /\ ~neg_calls[2].ok
  /\ local_description # <<>>
  /\ local_description[1].sdp_type = "answer"
  /\ remote_description # <<>>
  /\ remote_description[1].sdp = "remote1"

\* ------------------------------------------------------------------------
\* Claims about the mic test
\* ------------------------------------------------------------------------

MicStopRequested == mic_stop

MicTestEnded == mic_pc \in {"stopped", "failed"}

\* C21: once MicTest::stop has run or the MicTest is dropped, the mic-test
\* loop ends, whether the flag was stored while the loop was starved
\* (sleeping) or had a chunk in work; no iteration waits for ever.
C21_StopEndsMicTest == MicStopRequested ~> MicTestEnded

\* C21 witness: the loop has left through its head after the handle was
\* dropped while a chunk was in work, frames having been played before.
C21_Witness ==
  /\ mic_pc = "stopped"
  /\ mic_handle = "dropped"
  /\ mic_stop_at = "frame"
  /\ mic_last = "pushed"

\* ------------------------------------------------------------------------
\* Claims about concurrent and failed send_audio calls
\* ------------------------------------------------------------------------

\* The index of the call that took sequence number s in this run.
CallOfSeq(s) ==
  CHOOSE k \in (calls - calls_begun)..calls : k % U16 = s

\* C22: for every interleaving of concurrent send_audio calls, a packet
\* written to the track carries the timestamp of the call that took its
\* sequence number: 960 * k (mod 2^32) for the k-th call.
C22_SeqAndTimestampTogether ==
  \A i \in DOMAIN attempts :
    LET h == attempts[i].packet.header
    IN  h.timestamp = TimestampAfter(CallOfSeq(h.sequence_number))

\* The calls begun in this run and not yet at their write.
InFlight(pc) == {t \in DOMAIN snd_pc : snd_pc[t] = pc}

\* C29: every send_audio call takes the next sequence number and the next
\* timestamp, whether or not earlier writes failed: the counters stand at
\* the number of calls made, and no two packets handed to the track share
\* a sequence number or a timestamp, failed ones included.
C29_FailedSendKeepsItsNumbers ==
  /\ rtp_seq = calls % U16
  /\ rtp_ts = TimestampAfter(calls - Cardinality(InFlight("seq_taken")))
  /\ \A i, j \in DOMAIN attempts :
       i # j =>
         /\ attempts[i].packet.header.sequence_number
              # attempts[j].packet.header.sequence_number
         /\ attempts[i].packet.header.timestamp
              # attempts[j].packet.header.timestamp

\* C29 witness: a write failed, and the call made after it wrote the packet
\* with the next sequence number and the next timestamp.
C29_Witness ==
  /\ Len(attempts) >= 2
  /\ attempts[1].result = "err"
  /\ attempts[2].result = "ok"
  /\ attempts[2].packet.header.sequence_number
       = WrappingAddU16(attempts[1].packet.header.sequence_number, 1)
  /\ attempts[2].packet.header.timestamp
       = WrappingAddU32(attempts[1].packet.header.timestamp, FRAME_SIZE)
  /\ attempts[2].packet.header.sequence_number = 0

\* ------------------------------------------------------------------------
\* Claims about the on_track and state-change handlers
\* ------------------------------------------------------------------------

\* The decode loops of this PeerConn that are running.
RunningLoops ==
  (IF decode_pc = "running" THEN 1 ELSE 0)
    + Cardinality({i \in DOMAIN later_loops : later_loops[i] = "running"})

\* C23: a PeerConn has at most one decode loop at any time: a track that
\* arrives after the first does not add a loop that feeds the same decoded
\* channel.
C23_AtMostOneDecodeLoop == RunningLoops <= 1

\* The step is the state-change handler running.
StateChangeReported == connection_state' # connection_state

\* C24: the state-change handler does not close the connection, does not
\* stop a decode loop, and leaves the RTP sequence number, timestamp and
\* SSRC as they are, whatever state it is called with.
C24_NoSelfDestruct ==
  [][StateChangeReported =>
       /\ closed' = closed
       /\ decode_pc' = decode_pc
       /\ later_loops' = later_loops
       /\ rtp_seq' = rtp_seq
       /\ rtp_ts' = rtp_ts
       /\ rtp_ssrc' = rtp_ssrc]_vars

\* C24 witness: the handler has run for Failed while the decode loop was
\* running; the loop still runs and the connection is not closed.
C24_Witness ==
  /\ connection_state = "failed"
  /\ lost_warned
  /\ decode_pc = "running"
  /\ decoded # <<>>
  /\ ~closed

\* C25: whenever the handler has been called with Failed, Disconnected or
\* Closed, it has produced something the owner of the PeerConn can observe.
C25_LostConnectionIsSignalled ==
  ConnectionLost(connection_state) => state_events # <<>>

\* ------------------------------------------------------------------------
\* Claims about AudioPlayback::write
\* ------------------------------------------------------------------------

\* The place of chunk k in the order the sends completed.
SentAt(k) == CHOOSE i \in DOMAIN sent_order : sent_order[i] = k

\* C26: the samples of one written chunk enter the ring next to each other
\* and in order, never mixed with those of another chunk (push_slice may
\* leave out the end of a chunk that does not fit), and the chunks enter in
\* the order in which they were sent on the channel.
C26_ChunksReachRingWhole ==
  /\ pushed # <<>> => pushed[1].pos = 1
  /\ \A i \in 1..(Len(pushed) - 1) :
       \/ /\ pushed[i + 1].chunk = pushed[i].chunk
          /\ pushed[i + 1].pos = pushed[i].pos + 1
       \/ /\ pushed[i + 1].pos = 1
          /\ SentAt(pushed[i].chunk) < SentAt(pushed[i + 1].chunk)

\* C26 witness: two tasks had copied their chunks at the same time, the
\* chunk copied second was sent first, and all samples of both are in the
\* ring's history, the chunk sent first in front.
C26_Witness ==
  /\ Len(sent_order) >= 2
  /\ sent_order[1] = 2
  /\ sent_order[2] = 1
  /\ Len(pushed) = 2 * MaxPush
  /\ pushed[1].chunk = 2
  /\ pushed[MaxPush + 1] = [chunk |-> 1, pos |-> 1]

\* ------------------------------------------------------------------------
\* Claims about the capture ring and the voice-activity flag
\* ------------------------------------------------------------------------

\* C27: after each processed frame the speaking flag is true exactly when
\* the peak absolute value of that frame is above 0.01, and a frame that
\* encodes is sent on encoded_tx whatever the flag says.
C27_SpeakingDoesNotGate ==
  [][(chunk_pc = "popped" /\ chunk_pc' # "popped") =>
       /\ speaking' = (Peak(frame_amps') > VAD_THRESHOLD)
       /\ last_encode' = "ok" => frames_sent' = frames_sent + 1]_vars

\* C27 witness: the frame processed last peaks at exactly 0.01, the flag is
\* false, and the frame was encoded and sent, as was the speaking frame
\* before it.
C27_Witness ==
  /\ frame_amps = <<10, -10>>
  /\ ~speaking
  /\ last_encode = "ok"
  /\ frames_sent = 3
  /\ chunks_popped = 3

\* The samples of a buffer kept as runs are in capture order.
InCaptureOrder(runs) ==
  \A i \in DOMAIN runs :
    /\ runs[i][1] <= runs[i][2]
    /\ i > 1 => runs[i - 1][2] < runs[i][1]

\* The step is one invocation of the input callback.
CallbackPushes == bursts' = bursts + 1

\* C30: the capture ring never holds more than (rate / 5) * channels
\* samples. An invocation of the callback leaves the buffered samples where
\* they are and adds behind them the first of its samples that fit, no
\* more; what the loop pops, and what stays in the ring behind it, is in
\* capture order.
C30_RingBoundedAndInOrder ==
  [][/\ RunsLen(capture_ring') <= ring_size
     /\ InCaptureOrder(device_buf' \o capture_ring')
     /\ CallbackPushes =>
          LET held == RunsLen(capture_ring)
              len == captured' - captured
              free == ring_size - held
              fit == IF len < free THEN len ELSE free
          IN  /\ TakeRuns(capture_ring', held) = capture_ring
              /\ DropRuns(capture_ring', held) =
                   IF fit = 0 THEN <<>>
                              ELSE <<<<captured + 1, captured + fit>>>>]_vars

\* C30 witness: a callback found less room than it had samples, the ring
\* was filled to its capacity, and the loop has since popped a chunk.
C30_Witness ==
  /\ overflowed
  /\ bursts = MaxBursts
  /\ chunks_popped = 1
  /\ RunsLen(capture_ring) = ring_size - device_frame_samples

\* ------------------------------------------------------------------------
\* Claims about the signaling writer task
\* ------------------------------------------------------------------------

\* Messages the writer task has received from the outgoing channel.
Taken == Len(out_enqueued) - Len(out_queue)

\* The text frame of a SignalMessage the task is sending, if any.
MessageInFlight ==
  SelectSeq(fwd_frame, LAMBDA q : q.kind = "text" /\ q.text # TextPing)

\* The text frames due for the messages received: all but those that do not
\* serialize, in the order they were enqueued.
FramesDue ==
  LET kept == SelectSeq(SubSeq(out_enqueued, 1, Taken),
                        LAMBDA q : q # NotSerializable)
  IN  [j \in 1..Len(kept) |-> Text(to_string(kept[j]))]

\* The frames on the websocket that carry a SignalMessage.
FramesWritten ==
  SelectSeq(ws_frames, LAMBDA q : q.kind = "text" /\ q.text # TextPing)

\* A message waits on the outgoing channel.
OutgoingWaits == out_queue # <<>>

\* The channel is drained, or the task has ended.
OutgoingDrained == out_queue = <<>> \/ ~OutgoingRxHeld

\* C28: the text frames the writer task has put on the websocket for
\* SignalMessages are, in enqueue order and once each, the messages it has
\* received that serialize, short of the one it is sending or whose send
\* failed; pings lie between them and change nothing. Receiving a message
\* that does not serialize writes no frame and leaves the task running. A
\* message that waits is received unless the task ends.
C28_WriterKeepsOrder ==
  /\ [][/\ Len(FramesWritten') <= Len(FramesDue')
        /\ FramesWritten' = SubSeq(FramesDue', 1, Len(FramesWritten'))
        /\ Len(FramesDue') - Len(FramesWritten') <= 1
        /\ fwd_pc' # "send_failed" =>
             FramesWritten' \o MessageInFlight' = FramesDue'
        /\ (Taken' = Taken + 1 /\ Head(out_queue) = NotSerializable) =>
             /\ ws_frames' = ws_frames
             /\ fwd_pc' = "running"]_vars
  /\ OutgoingWaits ~> OutgoingDrained

\* C28 witness: three messages were enqueued, the second does not
\* serialize; both others are on the websocket in order, a keepalive ping
\* and an RTT ping between them, and the task runs.
C28_Witness ==
  /\ out_enqueued = <<Leave("r1", "me"), NotSerializable, Kick("p1")>>
  /\ ws_frames = <<Text(to_string(Leave("r1", "me"))), WsPing, Text(TextPing),
                   Text(to_string(Kick("p1")))>>
  /\ fwd_pc = "running"

\* ------------------------------------------------------------------------
\* Claims about the RTT samples
\* ------------------------------------------------------------------------

\* The step is the writer task storing a send time under the lock.
StampStored ==
  /\ writer_state = "stamping"
  /\ writer_state' = "send_ping"

\* The reader task handled the pong of the followed ping to the end, having
\* taken it off the stream while no send time was recorded.
LatePongHandled ==
  /\ followed_ping # <<>>
  /\ followed_ping[1].state = "read"
  /\ ~followed_ping[1].recorded

\* C31 as claimed: a "pong" received while no send time is recorded, a
\* second "pong" before the next ping, emits no sample.
C31_NoSampleForSecondPong ==
  LatePongHandled => followed_ping[1].sample = <<>>

\* C31: a sample goes on the RTT channel only when the reader task, a
\* "pong" in hand, finds a send time recorded under the lock, one sample at
\* a time, and that step clears the send time; when it finds none it emits
\* nothing; and a send time is recorded only by the store of the writer
\* task's RTT ping. So a stored send time gives at most one sample.
C31_OneSamplePerPing ==
  [][/\ PongTake =>
          /\ ping_sent_at' = <<>>
          /\ Len(rtt_rx') = Len(rtt_rx) + (IF ping_sent_at = <<>> THEN 0 ELSE 1)
     /\ Len(rtt_rx') > Len(rtt_rx) => PongTake
     /\ (ping_sent_at' # <<>> /\ ping_sent_at = <<>>) => StampStored]_vars

\* C31 witness: the "pong" that answers the followed "ping" was taken off
\* the stream after an earlier "pong" had used the send time; no send time
\* was stored before the reader task had the lock, and it gave no sample.
C31_Witness ==
  /\ LatePongHandled
  /\ ~followed_ping[1].superseded
  /\ followed_ping[1].sample = <<>>

\* The loop is at its top: no popped chunk is in processing.
AtLoopTop == loop_pc \in {"poll", "sleep"}

\* The capture is muted and the ring holds less than one 20 ms chunk.
MutedAndStarved == muted /\ ring_len < device_frame_samples

\* C32: while the capture is muted and the ring holds less than one 20 ms
\* chunk, the loop pops nothing and starts no frame, so the speaking flag
\* keeps the value stored for the last frame processed; set_muted itself
\* leaves the flag alone, and only the end of step 4 on a popped chunk ever
\* writes it.
C32_MuteKeepsSpeaking ==
  [][/\ (MutedAndStarved /\ AtLoopTop) =>
          /\ loop_pc' \in {"poll", "sleep"}
          /\ ring_len' >= ring_len
          /\ speaking' = speaking
          /\ frame_amps' = frame_amps
     /\ muted' # muted => speaking' = speaking
     /\ speaking' # speaking => (loop_pc = "encode" /\ loop_pc' # "encode")
     /\ frame_amps # <<>> => speaking = IsSpeaking(Peak(frame_amps))]_vars

\* The capture was muted while the last frame processed had the flag set, a
\* callback was discarded since, and the loop sleeps on a ring short of one
\* chunk with the flag still set.
C32_Witness ==
  /\ muted
  /\ muted_discards
  /\ ring_len < device_frame_samples
  /\ loop_pc = "sleep"
  /\ frame_amps = FrameAmps(0)
  /\ speaking


\* The chunks of a sequence of chunks.
ChunksOf(q) == {q[j] : j \in DOMAIN q}

\* C33: AudioPlayback::new has returned a handle whenever the thread was
\* spawned, whatever became of the output device; every write call returned
\* normally; and a chunk written after the playback thread had ended was
\* discarded: it is neither queued nor received.
C33_WriteNeverFails ==
  /\ pb_thread # "unspawned" => pb_new_result = "ok"
  /\ \A j \in DOMAIN pb_writes :
       /\ pb_writes[j].result = "unit"
       /\ pb_writes[j].thread_ended =>
            /\ pb_writes[j].chunk \in ChunksOf(pb_discarded)
            /\ pb_writes[j].chunk \notin ChunksOf(pb_chan)
            /\ pb_writes[j].chunk \notin ChunksOf(pb_received)

\* C33 witness: the device could not be opened, the handle exists, and a
\* write made after the thread had ended has returned, following one made
\* before.
C33_Witness ==
  /\ pb_thread = "ended"
  /\ pb_new_result = "ok"
  /\ Len(pb_writes) = 2
  /\ ~pb_writes[1].thread_ended
  /\ pb_writes[2].thread_ended
  /\ pb_writes[2].result = "unit"

=========================================================================
